---------------------------- MODULE Spec2Model ----------------------------
(***************************************************************************)
(* Delivery pipeline of plugup-push-orders-to-supabase.                    *)
(*                                                                         *)
(* Two delivery flows are modelled:                                        *)
(*   "tracking": SupabaseService.send_tracking_events, which chunks the    *)
(*               payload list and posts every chunk with                   *)
(*               _send_batch_to_supabase;                                  *)
(*   "orders":   WebhookService.send_batch, which posts every order with   *)
(*               _send_single_order.                                       *)
(* One step of the model is one requests.post together with everything the *)
(* code does with its outcome before the next post: the status dispatch,   *)
(* the backoff sleep and recursive call, or the return to the dispatch     *)
(* loop, the accounting of the loop body and, after the last batch, the    *)
(* construction of the result.                                             *)
(*                                                                         *)
(* Four specifications share the variables:                                *)
(*   Spec:          a dispatch on its own, from the call of                *)
(*                  send_tracking_events / send_batch to its result;       *)
(*   TransformSpec: a transformation on its own, rows in, payloads out;    *)
(*   StatusSpec:    the import of the status module and one call of        *)
(*                  normalize_status;                                      *)
(*   MainSpec:      an invocation of an entry point,                       *)
(*                  sync_shipment_tracking or process_orders: fetch,       *)
(*                  transformation, probe, dispatch and the summary        *)
(*                  returned.                                              *)
(*                                                                         *)
(* A text (response body) is represented by its length: the code only ever *)
(* takes prefixes text[:k] of it, and a prefix of a given text is          *)
(* determined by its length.                                               *)
(***************************************************************************)
EXTENDS Integers, Sequences, FiniteSets, TLC

VARIABLES
    flow,           \* "tracking" (function_shipment_tracking) or "orders" (functions)
    max_retries,    \* self.max_retries
    batch_size,     \* self.batch_size (tracking flow)
    events,         \* the payload list given to send_tracking_events / send_batch
    pc,             \* "start", "sending", "returned", "raised"
    event_batches,  \* local event_batches of send_tracking_events
    batch_index,    \* 0-based index of the batch (order) being delivered
    retry_count,    \* retry_count of the pending _send_* activation
    success_count,  \* local success_count
    error_count,    \* local error_count
    errors,         \* local errors
    result,         \* the returned SupabaseResult / WebhookResult, or NoResult
    last,           \* history: the latest requests.post and what became of it
    sleeps,         \* history: time.sleep durations of the current _send_* call
    posts,          \* history: number of requests of the current _send_* call
    retried,        \* history: kinds of failure the current call retried after
    requests,       \* history: number of requests issued in the invocation
    attempted,      \* history: 1-based indices of batches with a request issued
    stage,          \* position of the entry point: "direct" when the dispatcher or
                    \* the transformer is run on its own, else "start", "probe",
                    \* "send", "return"; "transform" and "transformed" around a
                    \* transformation on its own
    env,            \* which required settings of Config are set
    df,             \* the rows of the data source (events_df / df)
    skipped_count,  \* local skipped_count of transform_to_tracking_events
    connectivity,   \* what test_connectivity returned, or NoProbe
    response,       \* what the entry point returned, or NoResponse
    net,            \* history: the data-source fetches and probes issued, in order
    tables,         \* status_mapping: the MARKETPLACE_STATUS_MAPPING of the module
    imported,       \* status_mapping: "loading", "loaded", or "failed" when the
                    \* validation at import raised
    args,           \* the arguments of a normalize_status call
    normalized      \* what the call returned; "" before it

vars == << flow, max_retries, batch_size, events, pc, event_batches, batch_index,
           retry_count, success_count, error_count, errors, result, last, sleeps,
           posts, retried, requests, attempted, stage, env, df, skipped_count,
           connectivity, response, net, tables, imported, args, normalized >>

\* the variables of the entry points and of the transformers
entry == << stage, env, df, skipped_count, connectivity, response, net,
           tables, imported, args, normalized >>

-----------------------------------------------------------------------------
(* Bounds of the model *)

\* payload lists of every length 0..MaxEvents are dispatched
MaxEvents == 2
\* batch sizes 1..MaxBatchSize are configured
MaxBatchSize == 2
\* retry limits 0..MaxRetryLimit are configured
MaxRetryLimit == 1

(* Program constants *)

\* Config.MAX_RETRY_ATTEMPTS default
MAX_RETRY_ATTEMPTS == 3
\* Config.BATCH_SIZE default
BATCH_SIZE == 100
\* response.text[:200] in the failure message of _send_batch_to_supabase
SUPABASE_TEXT_LIMIT == 200
\* response.text[:100] in the failure message of _send_single_order
WEBHOOK_TEXT_LIMIT == 100

Min(a, b) == IF a < b THEN a ELSE b

\* Python s[lo:hi] for 0 <= lo <= hi on a sequence
PySlice(s, lo, hi) == SubSeq(s, lo + 1, Min(hi, Len(s)))

\* Python text[:k] on a text given by its length
TextPrefix(text, k) == Min(text, k)

-----------------------------------------------------------------------------
(* The endpoint: what one requests.post can produce *)

NotJson == [json |-> "invalid"]
\* {} : a JSON object without members
EmptyObject == [json |-> "object", value |-> << >>]
\* a JSON array: parses, is truthy, and has no .get
SomeArray == [json |-> "array"]
\* a per-item error message reported by the edge function
ItemError == [src |-> "item", index |-> 0, msg |-> [kind |-> "item", status |-> 0, text |-> 0]]
\* JSON objects in the shape of the edge function's summary
FullSummary ==
    [json |-> "object",
     value |-> [created |-> 1, updated |-> 1, skipped |-> 1, errors |-> 1,
                details |-> [error_messages |-> << ItemError >>]]]
PartialSummary == [json |-> "object", value |-> [created |-> 2]]

\* a response: status code, length of response.text, and what response.json() finds
Response(status, text, body) == [kind |-> "response", status |-> status,
                                 text |-> text, body |-> body]

SuccessBodies == {NotJson, EmptyObject, SomeArray, FullSummary, PartialSummary}
\* responses with another status, with texts shorter and longer than the prefixes
\* the failure messages keep
ErrorResponses ==
    {Response(201, 150, NotJson), Response(400, 250, NotJson),
     Response(500, 150, NotJson), Response(503, 250, NotJson)}

Responses == {Response(200, 20, b) : b \in SuccessBodies} \cup ErrorResponses

\* the exceptions requests.post raises.  A ConnectTimeout is a Timeout as well as
\* a ConnectionError and is caught as a Timeout (the first handler), so it is a
\* Timeout here; ConnectionError stands for the connection errors that are not
\* timeouts.
Timeout == [kind |-> "Timeout"]
ConnectionError == [kind |-> "ConnectionError"]
RequestException == [kind |-> "RequestException"]
\* any exception that is not a requests exception
OtherException == [kind |-> "Exception"]

-----------------------------------------------------------------------------
(* Messages and results *)

Message(kind, status, text) == [kind |-> kind, status |-> status, text |-> text]

\* what one activation of _send_* decides: retry after a sleep, or return
Retry(wait) == [retry |-> TRUE, wait |-> wait]
Return(success, message, response_data) ==
    [retry |-> FALSE, success |-> success, message |-> message,
     response_data |-> response_data]

NoResult == [total |-> -1]
\* faulty variant: the total is the sum of the two counters
ResultTotalOfCounters(total, successful, failed, errs) ==
    [total |-> successful + failed, successful |-> successful, failed |-> failed,
     errors |-> errs]
Result(total, successful, failed, errs) ==
    [total |-> total, successful |-> successful, failed |-> failed, errors |-> errs]

-----------------------------------------------------------------------------
(* Delivery client of the tracking flow: one activation of                 *)
(* SupabaseService._send_batch_to_supabase, from requests.post to either   *)
(* the recursive call (Retry) or the return statement (Return).            *)

\* faulty variant: a 500 is not taken for a server error
SupabaseOnResponseAbove500(resp, rc, maxr) ==
    IF resp.status = 200
    THEN IF resp.body.json # "invalid"
         THEN Return(TRUE, Message("Success", resp.status, 0), resp.body)
         ELSE Return(TRUE, Message("Success", resp.status, 0), EmptyObject)
    ELSE LET error_msg == Message("Failed", resp.status,
                                  TextPrefix(resp.text, SUPABASE_TEXT_LIMIT))
         IN  IF resp.status > 500 /\ rc < maxr
             THEN Retry(2 ^ rc)
             ELSE Return(FALSE, error_msg, EmptyObject)

\* faulty variant: every error status is retried
SupabaseOnResponseRetryAll(resp, rc, maxr) ==
    IF resp.status = 200
    THEN IF resp.body.json # "invalid"
         THEN Return(TRUE, Message("Success", resp.status, 0), resp.body)
         ELSE Return(TRUE, Message("Success", resp.status, 0), EmptyObject)
    ELSE LET error_msg == Message("Failed", resp.status,
                                  TextPrefix(resp.text, SUPABASE_TEXT_LIMIT))
         IN  IF resp.status >= 400 /\ rc < maxr
             THEN Retry(2 ^ rc)
             ELSE Return(FALSE, error_msg, EmptyObject)

\* faulty variant: the backoff after a 5xx starts at 2^1
SupabaseOnResponseBackoffShift(resp, rc, maxr) ==
    IF resp.status = 200
    THEN IF resp.body.json # "invalid"
         THEN Return(TRUE, Message("Success", resp.status, 0), resp.body)
         ELSE Return(TRUE, Message("Success", resp.status, 0), EmptyObject)
    ELSE LET error_msg == Message("Failed", resp.status,
                                  TextPrefix(resp.text, SUPABASE_TEXT_LIMIT))
         IN  IF resp.status >= 500 /\ rc < maxr
             THEN Retry(2 ^ (rc + 1))
             ELSE Return(FALSE, error_msg, EmptyObject)

\* faulty variant: the success range of the orders flow
SupabaseOnResponseAccept201(resp, rc, maxr) ==
    IF resp.status \in {200, 201}
    THEN IF resp.body.json # "invalid"
         THEN Return(TRUE, Message("Success", resp.status, 0), resp.body)
         ELSE Return(TRUE, Message("Success", resp.status, 0), EmptyObject)
    ELSE LET error_msg == Message("Failed", resp.status,
                                  TextPrefix(resp.text, SUPABASE_TEXT_LIMIT))
         IN  IF resp.status >= 500 /\ rc < maxr
             THEN Retry(2 ^ rc)
             ELSE Return(FALSE, error_msg, EmptyObject)

\* lines 89-111: a response arrived
SupabaseOnResponse(resp, rc, maxr) ==
    IF resp.status = 200
    THEN IF resp.body.json # "invalid"
         THEN Return(TRUE, Message("Success", resp.status, 0), resp.body)
         ELSE Return(TRUE, Message("Success", resp.status, 0), EmptyObject)
    ELSE LET error_msg == Message("Failed", resp.status,
                                  TextPrefix(resp.text, SUPABASE_TEXT_LIMIT))
         IN  IF resp.status >= 500 /\ rc < maxr
             THEN Retry(2 ^ rc)
             ELSE Return(FALSE, error_msg, EmptyObject)

\* faulty variant: the retry guard is off by one
SupabaseOnTimeoutOffByOne(rc, maxr) ==
    IF rc <= maxr
    THEN Retry(2 ^ rc)
    ELSE Return(FALSE, Message("Timeout after", 0, 0), EmptyObject)

\* faulty variant: the backoff grows linearly
SupabaseOnTimeoutLinear(rc, maxr) ==
    IF rc < maxr
    THEN Retry(2 * rc)
    ELSE Return(FALSE, Message("Timeout after", 0, 0), EmptyObject)

\* lines 113-125: requests.exceptions.Timeout
SupabaseOnTimeout(rc, maxr) ==
    IF rc < maxr
    THEN Retry(2 ^ rc)
    ELSE Return(FALSE, Message("Timeout after", 0, 0), EmptyObject)

\* faulty variant: a connection error is retried like a timeout
SupabaseOnConnectionErrorRetried(rc, maxr) ==
    IF rc < maxr
    THEN Retry(2 ^ rc)
    ELSE Return(FALSE, Message("Connection error", 0, 0), EmptyObject)

\* lines 127-134: requests.exceptions.ConnectionError
SupabaseOnConnectionError(rc, maxr) ==
    Return(FALSE, Message("Connection error", 0, 0), EmptyObject)

\* lines 136-143: any other requests.exceptions.RequestException
SupabaseOnRequestException(rc, maxr) ==
    Return(FALSE, Message("Request exception", 0, 0), EmptyObject)

\* lines 145-152: any other exception
SupabaseOnException(rc, maxr) ==
    Return(FALSE, Message("Unexpected exception", 0, 0), EmptyObject)

_send_batch_to_supabase(outcome, rc, maxr) ==
    CASE outcome.kind = "response" -> SupabaseOnResponse(outcome, rc, maxr)
      [] outcome.kind = "Timeout" -> SupabaseOnTimeout(rc, maxr)
      [] outcome.kind = "ConnectionError" -> SupabaseOnConnectionError(rc, maxr)
      [] outcome.kind = "RequestException" -> SupabaseOnRequestException(rc, maxr)
      [] OTHER -> SupabaseOnException(rc, maxr)

-----------------------------------------------------------------------------
(* Delivery client of the orders flow: one activation of                   *)
(* WebhookService._send_single_order.  It returns (success, message); the  *)
(* response_data component of Return is not part of it and stays empty.    *)

\* lines 60-72: a response arrived
WebhookOnResponse(resp, rc, maxr) ==
    IF resp.status \in {200, 201}
    THEN Return(TRUE, Message("Success", resp.status, 0), EmptyObject)
    ELSE LET error_msg == Message("Failed", resp.status,
                                  TextPrefix(resp.text, WEBHOOK_TEXT_LIMIT))
         IN  IF resp.status >= 500 /\ rc < maxr
             THEN Retry(2 ^ rc)
             ELSE Return(FALSE, error_msg, EmptyObject)

\* lines 74-81: requests.exceptions.Timeout
WebhookOnTimeout(rc, maxr) ==
    IF rc < maxr
    THEN Retry(2 ^ rc)
    ELSE Return(FALSE, Message("Timeout after", 0, 0), EmptyObject)

\* lines 83-84: except Exception (ConnectionError and every other exception)
WebhookOnException(rc, maxr) ==
    Return(FALSE, Message("Exception", 0, 0), EmptyObject)

_send_single_order(outcome, rc, maxr) ==
    CASE outcome.kind = "response" -> WebhookOnResponse(outcome, rc, maxr)
      [] outcome.kind = "Timeout" -> WebhookOnTimeout(rc, maxr)
      [] OTHER -> WebhookOnException(rc, maxr)

-----------------------------------------------------------------------------
(* Batch dispatcher *)

\* SupabaseService._chunk_events: for i in range(0, len(events), batch_size)
RECURSIVE ChunkFrom(_, _, _, _)
ChunkFrom(evs, i, size, chunks) ==
    IF i >= Len(evs)
    THEN chunks
    ELSE ChunkFrom(evs, i + size, size, Append(chunks, PySlice(evs, i, i + size)))

\* faulty variant: only full chunks, range(0, len(events) - batch_size + 1, batch_size)
ChunkFullOnly(evs, size) ==
    SelectSeq(ChunkFrom(evs, 0, size, << >>), LAMBDA c : Len(c) = size)

_chunk_events(evs, size) == ChunkFrom(evs, 0, size, << >>)

\* an entry of the errors list
ErrorEntry(src, index, msg) == [src |-> src, index |-> index, msg |-> msg]

\* dict.get(key, default) on a JSON object
Get(d, key, default) == IF key \in DOMAIN d THEN d[key] ELSE default

\* Python truth value of a parsed JSON value
Truthy(v) == IF v.json = "object" THEN DOMAIN v.value # {} ELSE TRUE

\* the local accumulators of a dispatch loop; raised: an exception left the loop
Acc(s, e, errs, raised) ==
    [success_count |-> s, error_count |-> e, errors |-> errs, raised |-> raised]

\* faulty variant: the skipped items of a summary are counted as succeeded
TrackingLoopBodySkippedCounted(acc, idx, batch, ret) ==
    IF ret.success
    THEN IF Truthy(ret.response_data)
         THEN IF ret.response_data.json # "object"
              THEN \* response_data.get: AttributeError
                   Acc(acc.success_count, acc.error_count, acc.errors, TRUE)
              ELSE LET d == ret.response_data.value
                       batch_created == Get(d, "created", 0)
                       batch_updated == Get(d, "updated", 0)
                       batch_skipped == Get(d, "skipped", 0)
                       batch_errors == Get(d, "errors", 0)
                       error_messages ==
                           Get(Get(d, "details", << >>), "error_messages", << >>)
                   IN  Acc(acc.success_count + (batch_created + batch_updated + batch_skipped),
                           acc.error_count + batch_errors,
                           IF error_messages # << >>
                           THEN acc.errors \o error_messages
                           ELSE acc.errors,
                           FALSE)
         ELSE Acc(acc.success_count + Len(batch), acc.error_count, acc.errors, FALSE)
    ELSE Acc(acc.success_count, acc.error_count + Len(batch),
             Append(acc.errors, ErrorEntry("batch", idx + 1, ret.message)), FALSE)

\* faulty variant: a failed batch counts as one failed item
TrackingLoopBodyFailedOne(acc, idx, batch, ret) ==
    IF ret.success
    THEN IF Truthy(ret.response_data)
         THEN IF ret.response_data.json # "object"
              THEN \* response_data.get: AttributeError
                   Acc(acc.success_count, acc.error_count, acc.errors, TRUE)
              ELSE LET d == ret.response_data.value
                       batch_created == Get(d, "created", 0)
                       batch_updated == Get(d, "updated", 0)
                       batch_errors == Get(d, "errors", 0)
                       error_messages ==
                           Get(Get(d, "details", << >>), "error_messages", << >>)
                   IN  Acc(acc.success_count + (batch_created + batch_updated),
                           acc.error_count + batch_errors,
                           IF error_messages # << >>
                           THEN acc.errors \o error_messages
                           ELSE acc.errors,
                           FALSE)
         ELSE Acc(acc.success_count + Len(batch), acc.error_count, acc.errors, FALSE)
    ELSE Acc(acc.success_count, acc.error_count + 1,
             Append(acc.errors, ErrorEntry("batch", idx + 1, ret.message)), FALSE)

\* send_tracking_events lines 233-259: the loop body after _send_batch_to_supabase
\* returned ret for the batch at 0-based index idx
TrackingLoopBody(acc, idx, batch, ret) ==
    IF ret.success
    THEN IF Truthy(ret.response_data)
         THEN IF ret.response_data.json # "object"
              THEN \* response_data.get: AttributeError
                   Acc(acc.success_count, acc.error_count, acc.errors, TRUE)
              ELSE LET d == ret.response_data.value
                       batch_created == Get(d, "created", 0)
                       batch_updated == Get(d, "updated", 0)
                       batch_errors == Get(d, "errors", 0)
                       error_messages ==
                           Get(Get(d, "details", << >>), "error_messages", << >>)
                   IN  Acc(acc.success_count + (batch_created + batch_updated),
                           acc.error_count + batch_errors,
                           IF error_messages # << >>
                           THEN acc.errors \o error_messages
                           ELSE acc.errors,
                           FALSE)
         ELSE Acc(acc.success_count + Len(batch), acc.error_count, acc.errors, FALSE)
    ELSE Acc(acc.success_count, acc.error_count + Len(batch),
             Append(acc.errors, ErrorEntry("batch", idx + 1, ret.message)), FALSE)

\* faulty variant: a failed order is counted, its message is not kept
OrdersLoopBodyUnreported(acc, order, ret) ==
    IF ret.success
    THEN Acc(acc.success_count + 1, acc.error_count, acc.errors, FALSE)
    ELSE Acc(acc.success_count, acc.error_count + 1, acc.errors, FALSE)

\* send_batch lines 117-121: the loop body after _send_single_order returned ret
\* for the order `order`
OrdersLoopBody(acc, order, ret) ==
    IF ret.success
    THEN Acc(acc.success_count + 1, acc.error_count, acc.errors, FALSE)
    ELSE Acc(acc.success_count, acc.error_count + 1,
             Append(acc.errors, ErrorEntry("order", order, ret.message)), FALSE)

-----------------------------------------------------------------------------
(* What the entry points return *)

\* Config.validate: both settings are set
AllSet == [url |-> TRUE, key |-> TRUE]

\* test_connectivity has not run
NoProbe == [probed |-> FALSE]
\* the entry point has not returned
NoResponse == [code |-> 0]

\* the pair (body, status code) an entry point returns
HttpResponse(body, code) == [body |-> body, code |-> code]

\* to_dict keeps errors[:10]
ERRORS_LIMIT == 10

\* faulty variant: every message is returned
to_dict_uncapped(f, r) ==
    (IF f = "tracking" THEN [total_events |-> r.total] ELSE [total_orders |-> r.total])
    @@ [successful |-> r.successful, failed |-> r.failed, errors |-> r.errors]

\* SupabaseResult.to_dict / WebhookResult.to_dict
to_dict(f, r) ==
    (IF f = "tracking" THEN [total_events |-> r.total] ELSE [total_orders |-> r.total])
    @@ [successful |-> r.successful, failed |-> r.failed,
        errors |-> PySlice(r.errors, 0, ERRORS_LIMIT)]

\* faulty variant: nothing to process is reported as an error
NothingToDoIsError(message) == HttpResponse([status |-> "error", message |-> message], 500)

\* return {'status': 'success', 'message': ...}, 200
NothingToDo(message) == HttpResponse([status |-> "success", message |-> message], 200)

\* return {'status': 'error', 'message': ...}, 500, after a failed probe or in
\* the handler of except Exception
Failed(message) == HttpResponse([status |-> "error", message |-> message], 500)

\* faulty variant: a dispatch in which every item failed is reported as an error
CompletedUnlessAllFailed(r) ==
    IF r.total > 0 /\ r.failed = r.total
    THEN HttpResponse([status |-> "error", message |-> "all failed"], 500)
    ELSE HttpResponse(
             (IF flow = "tracking"
              THEN [status |-> "completed", bigquery_events |-> Len(df),
                    valid_events |-> Len(events),
                    connectivity_test |-> connectivity.message]
              ELSE [status |-> "completed"])
             @@ to_dict(flow, r),
             200)

\* the summary after the dispatch: main.py lines 64-73, functions/main.py 41-47
Completed(r) ==
    HttpResponse(
        (IF flow = "tracking"
         THEN [status |-> "completed", bigquery_events |-> Len(df),
               valid_events |-> Len(events), connectivity_test |-> connectivity.message]
         ELSE [status |-> "completed"])
        @@ to_dict(flow, r),
        200)

-----------------------------------------------------------------------------
(* Values of the rows the data source returns, and Python's text functions *)

\* a cell of a DataFrame row: None (also a missing column, through row.get), NaN,
\* NaT, a text, a timestamp (tz "" when naive), or an array (an ARRAY column)
None == [kind |-> "None"]
NaN == [kind |-> "NaN"]
NaT == [kind |-> "NaT"]
Str(s) == [kind |-> "str", s |-> s]
Timestamp(at, tz) == [kind |-> "Timestamp", at |-> at, tz |-> tz]
Array == [kind |-> "ndarray"]

\* what a function call produced: a value, or an exception
Ok(v) == [raised |-> FALSE, value |-> v]
Raise(e) == [raised |-> TRUE, error |-> e]

\* str.lower() and str.strip(), on the texts of this model that have capitals
\* or blanks around them
Lower(s) ==
    CASE s = "MELI" -> "meli"
      [] s = " Walm " -> " walm "
      [] s = "Walm" -> "walm"
      [] s = "Shipped" -> "shipped"
      [] s = " Delivered " -> " delivered "
      [] s = "Delivered" -> "delivered"
      [] s = "EN TRÁNSITO" -> "en tránsito"
      [] OTHER -> s
Strip(s) ==
    CASE s = " " -> ""
      [] s = " delivered " -> "delivered"
      [] s = " Delivered " -> "Delivered"
      [] s = " walm " -> "walm"
      [] s = " Walm " -> "Walm"
      [] s = " bamo_company " -> "bamo_company"
      [] s = " Santiago " -> "Santiago"
      [] OTHER -> s

\* pd.isna(value) of a scalar cell
IsNa(c) == c.kind \in {"None", "NaN", "NaT"}

\* str(value)
PyStr(c) ==
    CASE c.kind = "str" -> c.s
      [] c.kind = "None" -> "None"
      [] c.kind = "NaN" -> "nan"
      [] c.kind = "NaT" -> "NaT"
      [] c.kind = "Timestamp" -> c.at
      [] OTHER -> "[]"

\* pd.to_datetime(value, errors="coerce", utc=False) of a text
to_datetime(s) ==
    CASE s = "2024-05-01 10:00:00" -> Timestamp("2024-05-01T10:00:00", "")
      [] s = "2024-05-01T10:00:00-04:00" -> Timestamp("2024-05-01T10:00:00", "-04:00")
      [] OTHER -> NaT

\* Timestamp.isoformat(): the date and time, then the UTC offset
isoformat(ts) == [kind |-> "iso8601", at |-> ts.at, offset |-> ts.tz]

-----------------------------------------------------------------------------
(* utils/status_mapping.py and company_mapping.py *)

\* PLUGUP_STATUS_MAPPING, in the order of the dict
PLUGUP_STATUS_MAPPING ==
    << << "pending", << "pending", "pendiente", "created", "acknowledged" >> >>,
       << "ready_to_ship", << "ready_to_ship", "lista para despacho", "handling", "ready_to_ship" >> >>,
       << "dispatched", << "shipped", "enviado", "en tránsito", "shipped" >> >>,
       << "in_transit", << "shipped", "en tránsito", "transit", "in_transit" >> >>,
       << "out_for_delivery", << "out_for_delivery", "en reparto" >> >>,
       << "delivered", << "delivered", "entregada", "entregado", "delivered" >> >>,
       << "delivery_failed", << "not_delivered", "failed_delivery", "excepción", "delivery_failed" >> >>,
       << "cancelled", << "cancelled", "canceled", "cancelada", "cancelado", "cancelled" >> >>,
       << "returned", << "returned", "devuelto", "returned" >> >> >>

MARKETPLACE_STATUS_MAPPING ==
    [meli |-> [pending |-> "pending", handling |-> "ready_to_ship",
               ready_to_ship |-> "ready_to_ship", shipped |-> "dispatched",
               delivered |-> "delivered", not_delivered |-> "delivery_failed",
               cancelled |-> "cancelled"],
     fala |-> [pending |-> "pending", ready_to_ship |-> "ready_to_ship",
               shipped |-> "dispatched", delivered |-> "delivered",
               canceled |-> "cancelled", returned |-> "returned"],
     walm |-> [created |-> "pending", acknowledged |-> "ready_to_ship",
               shipped |-> "dispatched", delivered |-> "delivered",
               cancelled |-> "cancelled"],
     cenc |-> ("pendiente" :> "pending" @@ "lista para despacho" :> "ready_to_ship"
               @@ "enviado" :> "dispatched" @@ "en tránsito" :> "in_transit"
               @@ "entregada" :> "delivered" @@ "entregado" :> "delivered"
               @@ "cancelada" :> "cancelled" @@ "cancelado" :> "cancelled"
               @@ "devuelto" :> "returned")]

\* the elements of a sequence
Range(seq) == {seq[i] : i \in 1..Len(seq)}

\* get_supported_statuses
get_supported_statuses == [i \in 1..Len(PLUGUP_STATUS_MAPPING) |-> PLUGUP_STATUS_MAPPING[i][1]]

\* faulty variant: a status that no table lists is returned as it is
RECURSIVE GeneralMappingEcho(_, _)
GeneralMappingEcho(clean_status, i) ==
    IF i > Len(PLUGUP_STATUS_MAPPING)
    THEN clean_status
    ELSE IF clean_status \in {Lower(s) : s \in Range(PLUGUP_STATUS_MAPPING[i][2])}
         THEN PLUGUP_STATUS_MAPPING[i][1]
         ELSE GeneralMappingEcho(clean_status, i + 1)

\* faulty variant: the last entry that lists the status decides
RECURSIVE GeneralMappingLast(_, _)
GeneralMappingLast(clean_status, i) ==
    IF i > Len(PLUGUP_STATUS_MAPPING)
    THEN "pending"
    ELSE IF \E j \in (i + 1)..Len(PLUGUP_STATUS_MAPPING) :
                clean_status \in {Lower(s) : s \in Range(PLUGUP_STATUS_MAPPING[j][2])}
         THEN GeneralMappingLast(clean_status, i + 1)
         ELSE IF clean_status \in {Lower(s) : s \in Range(PLUGUP_STATUS_MAPPING[i][2])}
              THEN PLUGUP_STATUS_MAPPING[i][1]
              ELSE "pending"

\* the loop of normalize_status over PLUGUP_STATUS_MAPPING.items(), from entry i
RECURSIVE GeneralMappingFrom(_, _)
GeneralMappingFrom(clean_status, i) ==
    IF i > Len(PLUGUP_STATUS_MAPPING)
    THEN "pending"
    ELSE IF clean_status \in {Lower(s) : s \in Range(PLUGUP_STATUS_MAPPING[i][2])}
         THEN PLUGUP_STATUS_MAPPING[i][1]
         ELSE GeneralMappingFrom(clean_status, i + 1)

\* faulty variant: the general table is consulted before the table of the
\* marketplace
NormalizeGeneralFirst(raw_status, marketplace) ==
    IF raw_status \in {None, Str("")} \/ marketplace \in {None, Str("")}
    THEN "pending"
    ELSE LET clean_status == Strip(Lower(PyStr(raw_status)))
             clean_marketplace == Strip(Lower(PyStr(marketplace)))
             marketplace_mapping ==
                 IF clean_marketplace \in DOMAIN MARKETPLACE_STATUS_MAPPING
                 THEN MARKETPLACE_STATUS_MAPPING[clean_marketplace]
                 ELSE << >>
         IN  IF \E i \in 1..Len(PLUGUP_STATUS_MAPPING) :
                    clean_status \in Range(PLUGUP_STATUS_MAPPING[i][2])
             THEN GeneralMappingFrom(clean_status, 1)
             ELSE IF clean_status \in DOMAIN marketplace_mapping
                  THEN marketplace_mapping[clean_status]
                  ELSE "pending"

\* faulty variant: a known marketplace without an entry for the status gives
\* the default, the general table is left out
NormalizeSpecificOnly(raw_status, marketplace) ==
    IF raw_status \in {None, Str("")} \/ marketplace \in {None, Str("")}
    THEN "pending"
    ELSE LET clean_status == Strip(Lower(PyStr(raw_status)))
             clean_marketplace == Strip(Lower(PyStr(marketplace)))
         IN  IF clean_marketplace \in DOMAIN MARKETPLACE_STATUS_MAPPING
             THEN IF clean_status \in DOMAIN MARKETPLACE_STATUS_MAPPING[clean_marketplace]
                  THEN MARKETPLACE_STATUS_MAPPING[clean_marketplace][clean_status]
                  ELSE "pending"
             ELSE GeneralMappingFrom(clean_status, 1)

\* normalize_status(raw_status, marketplace): the arguments are texts or None;
\* None and the empty text are falsy
normalize_status(raw_status, marketplace) ==
    IF raw_status \in {None, Str("")} \/ marketplace \in {None, Str("")}
    THEN "pending"
    ELSE LET clean_status == Strip(Lower(PyStr(raw_status)))
             clean_marketplace == Strip(Lower(PyStr(marketplace)))
             marketplace_mapping ==
                 IF clean_marketplace \in DOMAIN MARKETPLACE_STATUS_MAPPING
                 THEN MARKETPLACE_STATUS_MAPPING[clean_marketplace]
                 ELSE << >>
         IN  IF clean_status \in DOMAIN marketplace_mapping
             THEN marketplace_mapping[clean_status]
             ELSE GeneralMappingFrom(clean_status, 1)

\* faulty variant: the tables are not compared
ValidateAlwaysPasses(marketplace_status_mapping) == Ok(TRUE)

\* validate_status_mapping(), over the MARKETPLACE_STATUS_MAPPING of the module
\* being loaded: ValueError when an entry is not a key of PLUGUP_STATUS_MAPPING
validate_status_mapping(marketplace_status_mapping) ==
    LET valid_plugup_statuses == Range(get_supported_statuses)
    IN  IF \E marketplace \in DOMAIN marketplace_status_mapping :
               \E raw_status \in DOMAIN marketplace_status_mapping[marketplace] :
                   marketplace_status_mapping[marketplace][raw_status]
                       \notin valid_plugup_statuses
        THEN Raise("ValueError")
        ELSE Ok(TRUE)

COMPANY_NAME_TO_UUID == [bamo_company |-> "c12585ee-c8f4-4103-b7f0-37bd62401a65"]

get_company_uuid(company_name) ==
    IF company_name \notin DOMAIN COMPANY_NAME_TO_UUID
    THEN Raise("ValueError")
    ELSE Ok(COMPANY_NAME_TO_UUID[company_name])

\* the status module as every entry point finds it: loaded with the tables of
\* the repository, normalize_status not called from outside the transformer
StatusLoaded ==
    /\ tables = MARKETPLACE_STATUS_MAPPING
    /\ imported = "loaded"
    /\ args = << >>
    /\ normalized = ""

-----------------------------------------------------------------------------
(* State machine *)

Payloads(n) == [i \in 1..n |-> i]

Config(f, maxr, size, n) == [flow |-> f, max_retries |-> maxr, batch_size |-> size, n |-> n]

\* further << batch size, number of payloads >>: a short last batch after one and
\* after several full ones, and an exact multiple
ChunkCases == {<< 2, 5 >>, << 3, 6 >>, << 3, 7 >>, << 4, 5 >>}

\* the configurations and payload lists of an invocation; the orders flow has
\* no batch size (every order is posted alone)
Configs ==
    {Config("tracking", maxr, size, n) :
        maxr \in 0..MaxRetryLimit, size \in 1..MaxBatchSize, n \in 0..MaxEvents}
    \cup {Config("tracking", MAX_RETRY_ATTEMPTS, BATCH_SIZE, 250)}
    \cup {Config("tracking", 0, c[1], c[2]) : c \in ChunkCases}
    \cup {Config("orders", maxr, 1, n) : maxr \in 0..MaxRetryLimit, n \in 0..MaxEvents}

NoPost == [batch |-> 0]

Init ==
    \E c \in Configs :
        /\ flow = c.flow
        /\ max_retries = c.max_retries
        /\ batch_size = c.batch_size
        /\ events = Payloads(c.n)
        /\ pc = "start"
        /\ event_batches = << >>
        /\ batch_index = 0
        /\ retry_count = 0
        /\ success_count = 0
        /\ error_count = 0
        /\ errors = << >>
        /\ result = NoResult
        /\ last = NoPost
        /\ sleeps = << >>
        /\ posts = 0
        /\ retried = {}
        /\ requests = 0
        /\ attempted = {}
        /\ stage = "direct"
        /\ env = AllSet
        /\ df = << >>
        /\ skipped_count = 0
        /\ connectivity = NoProbe
        /\ response = NoResponse
        /\ net = << >>
        /\ StatusLoaded

\* faulty variant: no early return, and the empty list is posted as one empty batch
send_tracking_events_unguarded ==
    /\ pc = "start"
    /\ flow = "tracking"
    /\ event_batches' = IF events = << >> THEN << << >> >>
                                          ELSE ChunkFrom(events, 0, batch_size, << >>)
    /\ pc' = "sending"
    /\ UNCHANGED << flow, max_retries, batch_size, events, batch_index, retry_count,
                    success_count, error_count, errors, result, last, sleeps, posts,
                    retried, requests, attempted >>
    /\ UNCHANGED entry

\* SupabaseService.send_tracking_events, up to the first request
send_tracking_events ==
    /\ pc = "start"
    /\ flow = "tracking"
    /\ IF events = << >>
       THEN /\ result' = Result(0, 0, 0, << >>)
            /\ pc' = "returned"
            /\ UNCHANGED event_batches
       ELSE /\ event_batches' = _chunk_events(events, batch_size)
            /\ pc' = "sending"
            /\ UNCHANGED result
    /\ UNCHANGED << flow, max_retries, batch_size, events, batch_index, retry_count,
                    success_count, error_count, errors, last, sleeps, posts,
                    retried, requests, attempted >>
    /\ UNCHANGED entry

\* WebhookService.send_batch, up to the first request
send_batch ==
    /\ pc = "start"
    /\ flow = "orders"
    /\ IF events = << >>
       THEN /\ result' = Result(Len(events), success_count, error_count, errors)
            /\ pc' = "returned"
       ELSE /\ pc' = "sending"
            /\ UNCHANGED result
    /\ UNCHANGED << flow, max_retries, batch_size, events, event_batches, batch_index,
                    retry_count, success_count, error_count, errors, last, sleeps,
                    posts, retried, requests, attempted >>
    /\ UNCHANGED entry

\* the number of iterations of the dispatch loop
NumBatches == IF flow = "tracking" THEN Len(event_batches) ELSE Len(events)

\* faulty variant: the batches are taken from the last one to the first
CurrentPayloadReversed ==
    IF flow = "tracking"
    THEN event_batches[Len(event_batches) - batch_index]
    ELSE << events[Len(events) - batch_index] >>

\* the payload of the request of the current iteration
CurrentPayload ==
    IF flow = "tracking"
    THEN event_batches[batch_index + 1]
    ELSE << events[batch_index + 1] >>

\* one activation of the delivery client on the outcome of its request
Activation(outcome) ==
    IF flow = "tracking"
    THEN _send_batch_to_supabase(outcome, retry_count, max_retries)
    ELSE _send_single_order(outcome, retry_count, max_retries)

\* the rest of the loop body once the delivery client returned ret
LoopBody(ret) ==
    LET acc == Acc(success_count, error_count, errors, FALSE)
    IN  IF flow = "tracking"
        THEN TrackingLoopBody(acc, batch_index, CurrentPayload, ret)
        ELSE OrdersLoopBody(acc, events[batch_index + 1], ret)

\* for ... in enumerate(event_batches) / for order in orders: after the iteration
\* at 0-based index idx, whose delivery returned ret, the loop goes on while
\* items remain
\* faulty variant: the loop breaks at the first failed delivery
LoopStopsOnFailure(idx, n, ret) == ret.success /\ idx + 1 < n

LoopContinues(idx, n, ret) == idx + 1 < n

\* requests.post with the given outcome, and everything up to the next request
\* (last.before: the accumulators as the request was issued; last.summarised:
\* a call of this dispatch has returned a response_data that is not empty); when the
\* dispatcher was called by an entry point and is over, the entry point returns
Post(outcome) ==
    /\ pc = "sending"
    /\ LET act == Activation(outcome)
           waited == IF retry_count = 0 THEN << >> ELSE sleeps
           before == IF retry_count = 0 THEN {} ELSE retried
       IN  /\ last' = [batch |-> batch_index + 1, attempt |-> retry_count,
                       payload |-> CurrentPayload, outcome |-> outcome, act |-> act,
                       before |-> Acc(success_count, error_count, errors, FALSE),
                       summarised |-> \/ (last # NoPost /\ last.summarised)
                                      \/ (/\ ~act.retry
                                          /\ act.success
                                          /\ Truthy(act.response_data))]
           /\ posts' = IF retry_count = 0 THEN 1 ELSE posts + 1
           /\ requests' = requests + 1
           /\ attempted' = attempted \cup {batch_index + 1}
           /\ IF act.retry
              THEN /\ sleeps' = Append(waited, act.wait)
                   /\ retried' = before \cup {outcome.kind}
                   /\ retry_count' = retry_count + 1
                   /\ UNCHANGED << pc, batch_index, success_count, error_count,
                                   errors, result >>
              ELSE LET acc == LoopBody(act)
                   IN  /\ sleeps' = waited
                       /\ retried' = before
                       /\ retry_count' = 0
                       /\ success_count' = acc.success_count
                       /\ error_count' = acc.error_count
                       /\ errors' = acc.errors
                       /\ IF acc.raised
                          THEN /\ pc' = "raised"
                               /\ UNCHANGED << batch_index, result >>
                          ELSE IF LoopContinues(batch_index, NumBatches, act)
                          THEN /\ batch_index' = batch_index + 1
                               /\ UNCHANGED << pc, result >>
                          ELSE /\ pc' = "returned"
                               /\ result' = Result(Len(events), acc.success_count,
                                                   acc.error_count, acc.errors)
                               /\ UNCHANGED batch_index
    /\ IF stage = "send" /\ pc' # "sending"
       THEN /\ stage' = "return"
            /\ response' = IF pc' = "raised"
                           THEN Failed("AttributeError")
                           ELSE Completed(result')
       ELSE UNCHANGED << stage, response >>
    /\ UNCHANGED << tables, imported, args, normalized,
                    flow, max_retries, batch_size, events, event_batches, env, df,
                    skipped_count, connectivity, net >>

PostResponse == \E resp \in Responses : Post(resp)
PostTimeout == Post(Timeout)
PostConnectionError == Post(ConnectionError)
PostRequestException == Post(RequestException)
PostException == Post(OtherException)

Next ==
    \/ send_tracking_events
    \/ send_batch
    \/ PostResponse
    \/ PostTimeout
    \/ PostConnectionError
    \/ PostRequestException
    \/ PostException

Spec == Init /\ [][Next]_vars

\* every requests.post returns or raises within its timeout, and nothing else
\* blocks: the single thread of an invocation keeps taking steps
FairSpec == Spec /\ WF_vars(Next)

-----------------------------------------------------------------------------
(* Vocabulary of the properties *)

\* a request has been issued
Posted == last # NoPost
\* the latest request ended its _send_* call (the call returned)
CallEnded == Posted /\ ~last.act.retry
\* the latest request is followed by a backoff wait and another attempt
CallRetries == Posted /\ last.act.retry
\* the invocation is over
Done == pc \in {"returned", "raised"}
\* the waits 2^0, 2^1, ..., 2^(k-1)
Backoffs(k) == [i \in 1..k |-> 2 ^ (i - 1)]
\* the success range of the flow
SuccessRange == IF flow = "tracking" THEN {200} ELSE {200, 201}
ServerError(o) == o.kind = "response" /\ o.status >= 500
SuccessStatus(o) == o.kind = "response" /\ o.status \in SuccessRange
OtherStatus(o) == o.kind = "response" /\ o.status \notin SuccessRange /\ o.status < 500
\* the call of the latest request is over and so is its batch
BatchLeft == CallEnded /\ retry_count = 0 /\ (pc = "sending" => batch_index + 1 > last.batch)
\* the errors list holds an entry that reports the failure of batch (order) b
BatchReported(b) ==
    \E i \in 1..Len(errors) :
        /\ errors[i].src \in {"batch", "order"}
        /\ errors[i].index = b
RECURSIVE Concat(_)
Concat(ss) == IF ss = << >> THEN << >> ELSE Head(ss) \o Concat(Tail(ss))
CeilDiv(n, b) == (n + b - 1) \div b

-----------------------------------------------------------------------------
(* C1: one _send_batch_to_supabase / _send_single_order call started with  *)
(* retry_count 0 issues at least 1 and at most max_retries + 1 requests,   *)
(* whatever the endpoint does, and then returns success or failure; the    *)
(* retries after timeouts and after 5xx responses draw on the same         *)
(* counter, so a call never waits more than max_retries times; and the     *)
(* invocation as a whole comes to an end.                                  *)
C1_Bounded ==
    Posted =>
        /\ posts \in 1..(max_retries + 1)
        /\ last.attempt = posts - 1
        /\ Len(sleeps) <= max_retries
        /\ retried \subseteq {"Timeout", "response"}
        /\ CallRetries =>
              /\ posts <= max_retries
              /\ pc = "sending"
              /\ retry_count = posts
              /\ Len(sleeps) = posts
        /\ CallEnded =>
              /\ last.act.success \in BOOLEAN
              /\ Len(sleeps) = posts - 1
              /\ retry_count = 0

(* C1, with its end: the bound on the requests of a call holds throughout,  *)
(* and the invocation is eventually over.                                  *)
C1_RequestsBounded == []C1_Bounded /\ <>Done

\* a call that used up every retry, some after timeouts and some after 5xx
C1_Witness ==
    /\ CallEnded
    /\ max_retries >= 2
    /\ posts = max_retries + 1
    /\ retried = {"Timeout", "response"}

-----------------------------------------------------------------------------
(* C2: a timeout on attempt k < max_retries is followed by a wait of 2^k   *)
(* and attempt k+1 of the same batch; a timeout on attempt k = max_retries *)
(* ends the call in failure, with a message that records the timeout and   *)
(* an empty response summary.                                              *)
C2_Timeout ==
    (Posted /\ last.outcome = Timeout) =>
        IF last.attempt < max_retries
        THEN /\ last.act = Retry(2 ^ last.attempt)
             /\ sleeps = Backoffs(last.attempt) \o << 2 ^ last.attempt >>
             /\ pc = "sending"
             /\ retry_count = last.attempt + 1
             /\ batch_index + 1 = last.batch
             /\ CurrentPayload = last.payload
        ELSE /\ last.attempt = max_retries
             /\ last.act = Return(FALSE, Message("Timeout after", 0, 0), EmptyObject)
             /\ sleeps = Backoffs(last.attempt)

\* a call whose every attempt timed out, ending in failure after the last retry
C2_Witness ==
    /\ CallEnded
    /\ last.outcome = Timeout
    /\ last.attempt = max_retries
    /\ max_retries >= 2
    /\ retried = {"Timeout"}

-----------------------------------------------------------------------------
-----------------------------------------------------------------------------
(* C4: a 5xx response on attempt k < max_retries is followed by a wait of  *)
(* 2^k and attempt k+1; a 5xx response on attempt k = max_retries ends the *)
(* call in failure, with a message that holds the status code of that      *)
(* last response.                                                          *)
C4_ServerError ==
    (Posted /\ ServerError(last.outcome)) =>
        IF last.attempt < max_retries
        THEN /\ last.act = Retry(2 ^ last.attempt)
             /\ sleeps = Backoffs(last.attempt) \o << 2 ^ last.attempt >>
             /\ pc = "sending"
             /\ retry_count = last.attempt + 1
             /\ batch_index + 1 = last.batch
             /\ CurrentPayload = last.payload
        ELSE /\ last.attempt = max_retries
             /\ BatchLeft
             /\ ~last.act.success
             /\ last.act.message.kind = "Failed"
             /\ last.act.message.status = last.outcome.status
             /\ sleeps = Backoffs(last.attempt)

\* a call whose every attempt got a 5xx, the last one a 503
C4_Witness ==
    /\ CallEnded
    /\ ServerError(last.outcome)
    /\ last.outcome.status = 503
    /\ last.attempt = max_retries
    /\ max_retries >= 2
    /\ retried = {"response"}

-----------------------------------------------------------------------------
(* C5: a response whose status is neither in the success range nor 5xx     *)
(* ends the call in failure on the attempt that received it, at any        *)
(* attempt index: no wait and no further request follow, and the message   *)
(* holds the status code and at most the first 200 characters of the body. *)
C5_OtherStatus ==
    (Posted /\ OtherStatus(last.outcome)) =>
        /\ BatchLeft
        /\ ~last.act.success
        /\ last.act.message.kind = "Failed"
        /\ last.act.message.status = last.outcome.status
        /\ last.act.message.text <= 200
        /\ last.act.message.text <= last.outcome.text
        /\ last.act.message.text =
              IF flow = "tracking" THEN TextPrefix(last.outcome.text, 200)
                                   ELSE TextPrefix(last.outcome.text, 100)
        /\ sleeps = Backoffs(last.attempt)
        /\ posts = last.attempt + 1

\* a 400 with a long body, received on a retry with attempts remaining
C5_Witness ==
    /\ Posted
    /\ flow = "tracking"
    /\ last.outcome.kind = "response"
    /\ last.outcome.status = 400
    /\ last.outcome.text > 200
    /\ last.attempt >= 1
    /\ last.attempt < max_retries
    /\ last.act.message.text = 200

-----------------------------------------------------------------------------
(* C6: when attempt k gets a success status after k retried failures, the  *)
(* call reports success, the dispatcher records no error entry for the     *)
(* batch, and exactly k waits happened, of 2^0, 2^1, ..., 2^(k-1) in this  *)
(* order.                                                                  *)
C6_SuccessAfterRetries ==
    (Posted /\ SuccessStatus(last.outcome)) =>
        /\ CallEnded
        /\ last.act.success
        /\ Len(sleeps) = last.attempt
        /\ sleeps = Backoffs(last.attempt)
        /\ \A i \in 1..(Len(sleeps) - 1) : sleeps[i] < sleeps[i + 1]
        /\ ~BatchReported(IF flow = "tracking" THEN last.batch ELSE last.payload[1])

\* timeouts on attempts 0 and 1, success on attempt 2, reported without errors
C6_Witness ==
    /\ pc = "returned"
    /\ Posted
    /\ flow = "tracking"
    /\ SuccessStatus(last.outcome)
    /\ last.attempt = 2
    /\ retried = {"Timeout"}
    /\ sleeps = << 1, 2 >>
    /\ result.successful = Len(events)
    /\ result.errors = << >>

-----------------------------------------------------------------------------
(* C7: a response is a success exactly when its status is in the success   *)
(* range, {200} in the tracking flow and {200, 201} in the orders flow,    *)
(* and then ends the call at once; in the tracking flow the summary is the *)
(* parsed body when the body parses and the empty summary otherwise, and a *)
(* 201 is a failure that is not retried.                                   *)
C7_SuccessRange ==
    (Posted /\ last.outcome.kind = "response") =>
        /\ SuccessStatus(last.outcome) <=> (CallEnded /\ last.act.success)
        /\ (flow = "tracking") =>
              /\ last.outcome.status = 200 =>
                    /\ CallEnded
                    /\ last.act.success
                    /\ last.act.response_data =
                          IF last.outcome.body.json = "invalid"
                          THEN EmptyObject
                          ELSE last.outcome.body
              /\ last.outcome.status = 201 =>
                    /\ CallEnded
                    /\ ~last.act.success
                    /\ sleeps = Backoffs(last.attempt)
        /\ (flow = "orders" /\ last.outcome.status \in {200, 201}) =>
              /\ CallEnded
              /\ last.act.success

\* a 200 with a summary in the tracking flow, received on a retry
C7_Witness ==
    /\ Posted
    /\ flow = "tracking"
    /\ last.outcome.kind = "response"
    /\ last.outcome.status = 200
    /\ last.outcome.body = FullSummary
    /\ last.attempt >= 1
    /\ last.act.response_data = FullSummary

-----------------------------------------------------------------------------
(* C8: when the dispatch returns its result, every batch (every order) has *)
(* had its delivery attempted, whatever became of the batches before it.   *)
C8_NoEarlyAbort ==
    (pc = "returned") =>
        /\ attempted = 1..NumBatches
        /\ requests >= NumBatches
        /\ flow = "tracking" => NumBatches = Len(_chunk_events(events, batch_size))
        /\ flow = "orders" => NumBatches = Len(events)

\* the first batch ran out of retries, and the dispatch went through the rest
C8_Witness ==
    /\ pc = "returned"
    /\ NumBatches >= 2
    /\ max_retries >= 1
    /\ Len(errors) >= 1
    /\ errors[1].src = "batch"
    /\ errors[1].index = 1
    /\ errors[1].msg.kind = "Timeout after"
    /\ attempted = 1..NumBatches

-----------------------------------------------------------------------------
(* C9: n > 0 payloads and a batch size b >= 1 give ceil(n / b) batches:    *)
(* each non-empty and of at most b items, all but the last of exactly b    *)
(* items, their concatenation the payload list; every request carries its  *)
(* batch; and 250 payloads with b = 100 and no failed attempt give exactly *)
(* 3 requests, of 100, 100 and 50 items.                                   *)
C9_Chunks ==
    (flow = "tracking" /\ pc # "start" /\ events # << >>) =>
        LET n == Len(events)
            b == batch_size
            m == Len(event_batches)
        IN  /\ m = CeilDiv(n, b)
            /\ \A k \in 1..m :
                  /\ Len(event_batches[k]) >= 1
                  /\ Len(event_batches[k]) <= b
                  /\ k < m => Len(event_batches[k]) = b
            /\ Concat(event_batches) = events
            /\ Posted => last.payload = event_batches[last.batch]
            /\ (n = 250 /\ b = 100 /\ pc = "returned" /\ requests = Cardinality(attempted)) =>
                  /\ requests = 3
                  /\ [k \in 1..m |-> Len(event_batches[k])] = << 100, 100, 50 >>

\* 250 payloads delivered in 3 requests
C9_Witness ==
    /\ pc = "returned"
    /\ flow = "tracking"
    /\ Len(events) = 250
    /\ batch_size = 100
    /\ requests = 3
    /\ result.failed = 0
    /\ result.errors = << >>

-----------------------------------------------------------------------------
(* C10: the dispatch of an empty payload list issues no request and        *)
(* returns total = 0, successful = 0, failed = 0 and no errors, in both    *)
(* flows.                                                                  *)
C10_EmptyDispatch ==
    (events = << >>) =>
        /\ requests = 0
        /\ ~Posted
        /\ attempted = {}
        /\ pc \in {"start", "returned"}
        /\ pc = "returned" => result = Result(0, 0, 0, << >>)

\* an empty dispatch has returned
C10_Witness ==
    /\ pc = "returned"
    /\ events = << >>
    /\ flow = "orders"
    /\ result.total = 0

-----------------------------------------------------------------------------
\* the response carries a structured summary: a JSON object with members
HasSummary(o) == o.body.json = "object" /\ DOMAIN o.body.value # {}
\* the response carries none: the body is not JSON (or empty), or is {}
NoSummary(o) == o.body.json = "invalid" \/ o.body = EmptyObject
\* a count of a summary, 0 when the summary does not report it
Count(d, key) == IF key \in DOMAIN d THEN d[key] ELSE 0
\* the per-item error messages of a summary
ItemMessages(d) ==
    IF "details" \in DOMAIN d /\ "error_messages" \in DOMAIN d.details
    THEN d.details.error_messages
    ELSE << >>

(* C11: when a batch of the tracking flow ends in success, a response with *)
(* a summary adds created + updated to succeeded (a count the summary does *)
(* not report is 0, skipped is added to nothing), adds the reported errors *)
(* count to failed, and appends the summary's per-item error messages; a   *)
(* response without a summary (not JSON, empty, or {}) adds the number of  *)
(* items of the batch to succeeded and leaves failed and the error list    *)
(* alone.                                                                  *)
C11_SuccessAccounting ==
    (flow = "tracking" /\ CallEnded /\ SuccessStatus(last.outcome)) =>
        LET o == last.outcome
            b == last.before
        IN  /\ HasSummary(o) =>
                  LET d == o.body.value
                  IN  /\ success_count = b.success_count + Count(d, "created") + Count(d, "updated")
                      /\ error_count = b.error_count + Count(d, "errors")
                      /\ errors = b.errors \o ItemMessages(d)
            /\ NoSummary(o) =>
                  /\ success_count = b.success_count + Len(last.payload)
                  /\ error_count = b.error_count
                  /\ errors = b.errors

\* a batch of two items delivered without a summary, then a batch whose summary
\* reports created, updated, skipped and failed items and one message
C11_Witness ==
    /\ flow = "tracking"
    /\ CallEnded
    /\ last.batch = 2
    /\ last.outcome.kind = "response"
    /\ last.outcome.status = 200
    /\ last.outcome.body = FullSummary
    /\ last.before.success_count = 2
    /\ Len(event_batches[1]) = 2
    /\ last.before.errors = << >>
    /\ success_count = 4
    /\ error_count = 1
    /\ errors = << ItemError >>

-----------------------------------------------------------------------------
(* C12: when a batch of the tracking flow ends in terminal failure, failed *)
(* grows by the number of items of the batch, succeeded does not change,   *)
(* and exactly one message is appended to the error list: the 1-based      *)
(* index of the batch with the failure message of the delivery client.     *)
C12_FailureAccounting ==
    (flow = "tracking" /\ CallEnded /\ ~SuccessStatus(last.outcome)) =>
        /\ last.payload = event_batches[last.batch]
        /\ error_count = last.before.error_count + Len(last.payload)
        /\ success_count = last.before.success_count
        /\ errors = Append(last.before.errors,
                           ErrorEntry("batch", last.batch, last.act.message))

\* the second batch, of several items, failed after the first one had failed
C12_Witness ==
    /\ flow = "tracking"
    /\ CallEnded
    /\ ~SuccessStatus(last.outcome)
    /\ last.batch = 2
    /\ Len(last.payload) >= 2
    /\ Len(last.before.errors) = 1
    /\ last.before.errors[1].index = 1
    /\ Len(errors) = 2
    /\ errors[2].index = 2
    /\ error_count = Len(event_batches[1]) + Len(event_batches[2])

-----------------------------------------------------------------------------
(* ShipmentTransformerService: rows of tracking events to payloads *)

required_fields ==
    << "marketplace_order_id", "marketplace", "company_id", "event_status",
       "event_timestamp" >>

optional_fields == << "event_location", "courier_name", "tracking_number", "notes" >>

\* the loop of _validate_required_fields, from field i.  pd.isna of an array is
\* an array, whose truth value raises ValueError
RECURSIVE ValidateFrom(_, _)
ValidateFrom(row, i) ==
    IF i > Len(required_fields)
    THEN Ok(TRUE)
    ELSE LET value == row[required_fields[i]]
         IN  IF value.kind = "ndarray"
             THEN Raise("ValueError")
             ELSE IF IsNa(value) \/ Strip(PyStr(value)) = ""
                  THEN Ok(FALSE)
                  ELSE ValidateFrom(row, i + 1)

_validate_required_fields(row) == ValidateFrom(row, 1)

\* the ISO 8601 text of a timestamp cell, or None
_format_timestamp(timestamp_value) ==
    IF IsNa(timestamp_value)
    THEN None
    ELSE LET ts == IF timestamp_value.kind = "Timestamp"
                   THEN timestamp_value
                   ELSE to_datetime(PyStr(timestamp_value))
         IN  IF IsNa(ts)
             THEN None
             ELSE isoformat(IF ts.tz = "" THEN Timestamp(ts.at, "+00:00") ELSE ts)

\* faulty variant: a text is copied with the blanks around it, and a blank one
\* is copied as well
RECURSIVE OptionalUntrimmedFrom(_, _, _)
OptionalUntrimmedFrom(row, i, event) ==
    IF i > Len(optional_fields)
    THEN event
    ELSE LET value == row[optional_fields[i]]
         IN  IF ~IsNa(value)
             THEN OptionalUntrimmedFrom(row, i + 1,
                                        event @@ (optional_fields[i] :> PyStr(value)))
             ELSE OptionalUntrimmedFrom(row, i + 1, event)

\* lines 102-105: the optional fields of the payload, from field i
RECURSIVE OptionalFrom(_, _, _)
OptionalFrom(row, i, event) ==
    IF i > Len(optional_fields)
    THEN event
    ELSE LET value == row[optional_fields[i]]
         IN  IF ~IsNa(value) /\ Strip(PyStr(value)) # ""
             THEN OptionalFrom(row, i + 1,
                               event @@ (optional_fields[i] :> Strip(PyStr(value))))
             ELSE OptionalFrom(row, i + 1, event)

\* faulty variant: a company that is not in the mapping is passed on by its name
BuildTrackingEventCompanyName(row) ==
    LET normalized_status == normalize_status(Str(PyStr(row.event_status)),
                                              Str(PyStr(row.marketplace)))
        event_timestamp == _format_timestamp(row.event_timestamp)
        company_name == PyStr(row.company_id)
        company_uuid == get_company_uuid(company_name)
    IN  IF event_timestamp = None
        THEN Raise("ValueError")
        ELSE Ok(OptionalFrom(row, 1,
                    [marketplace_order_id |-> PyStr(row.marketplace_order_id),
                     marketplace |-> Lower(PyStr(row.marketplace)),
                     company_id |-> IF company_uuid.raised THEN company_name
                                                          ELSE company_uuid.value,
                     event_status |-> normalized_status,
                     event_timestamp |-> event_timestamp]))

_build_tracking_event(row) ==
    LET normalized_status == normalize_status(Str(PyStr(row.event_status)),
                                              Str(PyStr(row.marketplace)))
        event_timestamp == _format_timestamp(row.event_timestamp)
        company_name == PyStr(row.company_id)
        company_uuid == get_company_uuid(company_name)
    IN  IF event_timestamp = None
        THEN Raise("ValueError")
        ELSE IF company_uuid.raised
        THEN Raise("ValueError")
        ELSE Ok(OptionalFrom(row, 1,
                    [marketplace_order_id |-> PyStr(row.marketplace_order_id),
                     marketplace |-> Lower(PyStr(row.marketplace)),
                     company_id |-> company_uuid.value,
                     event_status |-> normalized_status,
                     event_timestamp |-> event_timestamp]))

\* the state of the loop of transform_to_tracking_events; raised: an exception
\* left the loop
Transformed(evs, skipped, raised) ==
    [tracking_events |-> evs, skipped_count |-> skipped, raised |-> raised]

\* faulty variant: a row without a required field is dropped and not counted
TransformRowUncounted(t, row) ==
    LET valid == _validate_required_fields(row)
        event == _build_tracking_event(row)
    IN  IF valid.raised
        THEN Transformed(t.tracking_events, t.skipped_count + 1, FALSE)
        ELSE IF ~valid.value
        THEN Transformed(t.tracking_events, t.skipped_count, FALSE)
        ELSE IF event.raised
        THEN Transformed(t.tracking_events, t.skipped_count + 1, FALSE)
        ELSE Transformed(Append(t.tracking_events, event.value), t.skipped_count, FALSE)

\* faulty variant: only ValueError is caught around _build_tracking_event, and
\* the fault of the validation leaves the loop
TransformRowUncaught(t, row) ==
    LET valid == _validate_required_fields(row)
        event == _build_tracking_event(row)
    IN  IF valid.raised
        THEN Transformed(t.tracking_events, t.skipped_count, TRUE)
        ELSE IF ~valid.value
        THEN Transformed(t.tracking_events, t.skipped_count + 1, FALSE)
        ELSE IF event.raised
        THEN Transformed(t.tracking_events, t.skipped_count + 1, FALSE)
        ELSE Transformed(Append(t.tracking_events, event.value), t.skipped_count, FALSE)

\* faulty variant: a row whose payload was already emitted for an earlier row
\* is skipped
TransformRowDeduplicated(t, row) ==
    LET valid == _validate_required_fields(row)
        event == _build_tracking_event(row)
    IN  IF valid.raised
        THEN Transformed(t.tracking_events, t.skipped_count + 1, FALSE)
        ELSE IF ~valid.value
        THEN Transformed(t.tracking_events, t.skipped_count + 1, FALSE)
        ELSE IF event.raised
        THEN Transformed(t.tracking_events, t.skipped_count + 1, FALSE)
        ELSE IF event.value \in Range(t.tracking_events)
        THEN Transformed(t.tracking_events, t.skipped_count + 1, FALSE)
        ELSE Transformed(Append(t.tracking_events, event.value), t.skipped_count, FALSE)

\* lines 133-149: one iteration of the loop, try and except Exception included
TransformRow(t, row) ==
    LET valid == _validate_required_fields(row)
        event == _build_tracking_event(row)
    IN  IF valid.raised
        THEN Transformed(t.tracking_events, t.skipped_count + 1, FALSE)
        ELSE IF ~valid.value
        THEN Transformed(t.tracking_events, t.skipped_count + 1, FALSE)
        ELSE IF event.raised
        THEN Transformed(t.tracking_events, t.skipped_count + 1, FALSE)
        ELSE Transformed(Append(t.tracking_events, event.value), t.skipped_count, FALSE)

\* for index, row in df.iterrows(), from row i
RECURSIVE TransformFrom(_, _, _)
TransformFrom(rows, i, t) ==
    IF i > Len(rows) \/ t.raised
    THEN t
    ELSE TransformFrom(rows, i + 1, TransformRow(t, rows[i]))

\* transform_to_tracking_events(df); an empty df returns [] at once
transform_to_tracking_events(rows) ==
    IF rows = << >>
    THEN Transformed(<< >>, 0, FALSE)
    ELSE TransformFrom(rows, 1, Transformed(<< >>, 0, FALSE))

-----------------------------------------------------------------------------
(* OrderTransformerService and utils/datetime_utils.py: order rows to      *)
(* webhook payloads                                                        *)

\* an integer cell
IntCell(n) == [kind |-> "int", n |-> n]

\* int(value): an integer, or TypeError / ValueError
PyInt(c) == IF c.kind = "int" THEN Ok(c.n) ELSE Raise("ValueError")

\* Timestamp.tz_convert / tz_localize to America/Santiago (UTC-04:00 on the
\* dates of this model); 2024-09-08 00:30 does not exist there (clocks go
\* forward) and tz_localize raises
to_clt(ts) ==
    CASE ts.tz = "" /\ ts.at = "2024-09-08T00:30:00" -> Raise("NonExistentTimeError")
      [] ts.tz = "" -> Ok(Timestamp(ts.at, "-04:00"))
      [] ts.tz = "+00:00" /\ ts.at = "2024-05-01T10:00:00" ->
             Ok(Timestamp("2024-05-01T06:00:00", "-04:00"))
      [] OTHER -> Ok(ts)

to_iso8601_clt(value) ==
    IF IsNa(value)
    THEN None
    ELSE LET ts == IF value.kind = "Timestamp" THEN value ELSE to_datetime(PyStr(value))
         IN  IF IsNa(ts)
             THEN None
             ELSE IF to_clt(ts).raised THEN None ELSE isoformat(to_clt(ts).value)

\* the loop of _build_sku_dict over the rows of a group, from row i; a later
\* row with the same seller_sku replaces the entry
RECURSIVE SkuDictFrom(_, _, _)
SkuDictFrom(group, i, sku_dict) ==
    IF i > Len(group)
    THEN Ok(sku_dict)
    ELSE LET row == group[i]
             seller_sku == PyStr(row.seller_sku)
             quantity == PyInt(row.quantity)
         IN  IF quantity.raised
             THEN quantity
             ELSE SkuDictFrom(group, i + 1,
                      (seller_sku :> [quantity |-> quantity.value,
                                      name |-> PyStr(row.sku_name),
                                      market_place_match_id |-> PyStr(row.market_place_match_id),
                                      order_item_id |-> PyStr(row.order_item_id)])
                      @@ sku_dict)

_build_sku_dict(group) == SkuDictFrom(group, 1, << >>)

_build_webhook_payload(order_id, first_row, sku_dict) ==
    LET order_created_iso == to_iso8601_clt(first_row.order_created_at)
        shipping_promise_iso == to_iso8601_clt(first_row.shipping_promise_date)
    IN  IF order_created_iso = None
        THEN Raise("ValueError")
        ELSE Ok([order |-> order_id,
                 shipping_id |-> PyStr(first_row.shipping_id),
                 status |-> PyStr(first_row.status),
                 shipping_status |-> PyStr(first_row.shipping_status),
                 logistic_type |-> PyStr(first_row.logistic_type),
                 market_place |-> PyStr(first_row.marketplace),
                 order_created_at |-> order_created_iso,
                 shipping_promise_date |-> shipping_promise_iso,
                 sku |-> sku_dict])

\* the order ids of this model, in the order groupby sorts them
OrderIds == << "1001", "1002", "1003" >>

\* df.groupby('order_id'): the group of a key, its rows in the order of df
Group(rows, order_id) == SelectSeq(rows, LAMBDA row : row.order_id = Str(order_id))

\* faulty variant: the keys of the groups in descending order
GroupKeysDescending(rows) ==
    LET keys == SelectSeq(OrderIds, LAMBDA k : Group(rows, k) # << >>)
    IN  [i \in 1..Len(keys) |-> keys[Len(keys) + 1 - i]]

\* the keys of the groups in sorted order; rows whose order_id is None or NaN
\* belong to no group
GroupKeys(rows) == SelectSeq(OrderIds, LAMBDA k : Group(rows, k) # << >>)

\* lines 85-99: one iteration of the loop over the groups, try and except
\* Exception included
TransformGroup(webhooks, order_id, group) ==
    LET first_row == group[1]
        sku_dict == _build_sku_dict(group)
        webhook == _build_webhook_payload(order_id, first_row, sku_dict.value)
    IN  IF sku_dict.raised
        THEN webhooks
        ELSE IF webhook.raised
        THEN webhooks
        ELSE Append(webhooks, webhook.value)

RECURSIVE WebhooksFrom(_, _, _, _)
WebhooksFrom(rows, keys, i, webhooks) ==
    IF i > Len(keys)
    THEN webhooks
    ELSE WebhooksFrom(rows, keys, i + 1,
                      TransformGroup(webhooks, keys[i], Group(rows, keys[i])))

\* transform_to_webhooks(df)
transform_to_webhooks(rows) ==
    IF rows = << >>
    THEN << >>
    ELSE WebhooksFrom(rows, GroupKeys(rows), 1, << >>)

-----------------------------------------------------------------------------
(* The transformers on their own: rows in, payloads out *)

\* data frames of 0..MaxRows rows are transformed
MaxRows == 2

\* a row that yields a payload: capitals in marketplace and status, a naive
\* timestamp as text, an optional field with blanks around it and three
\* optional fields that are None, NaN and blank
GoodRow ==
    [marketplace_order_id |-> Str("2000001"), marketplace |-> Str("MELI"),
     company_id |-> Str("bamo_company"), event_status |-> Str("Shipped"),
     event_timestamp |-> Str("2024-05-01 10:00:00"),
     event_location |-> Str(" Santiago "), courier_name |-> None,
     tracking_number |-> NaN, notes |-> Str(" ")]

\* another one: a status of the general mapping, a timestamp with an offset
OtherGoodRow ==
    [marketplace_order_id |-> Str("2000002"), marketplace |-> Str("cenc"),
     company_id |-> Str("bamo_company"), event_status |-> Str("EN TRÁNSITO"),
     event_timestamp |-> Timestamp("2024-05-01T10:00:00", "-04:00"),
     event_location |-> None, courier_name |-> Str("Chilexpress"),
     tracking_number |-> Str("TN-1"), notes |-> None]

\* the values a required field is missing, null or blank with
Blanks == {None, NaN, NaT, Str(""), Str(" ")}

\* GoodRow with one required field missing, null or blank
BlankRows ==
    {[GoodRow EXCEPT ![required_fields[i]] = b] :
        i \in 1..Len(required_fields), b \in Blanks}

\* rows that pass the validation and raise in _build_tracking_event, a row that
\* raises in the validation, and a row with a status no mapping knows
UnparseableRow == [GoodRow EXCEPT !.event_timestamp = Str("not a date")]
UnknownCompanyRow == [GoodRow EXCEPT !.company_id = Str("other_company")]
PaddedCompanyRow == [GoodRow EXCEPT !.company_id = Str(" bamo_company ")]
ArrayRow == [GoodRow EXCEPT !.company_id = Array]
UnmappedStatusRow == [GoodRow EXCEPT !.event_status = Str("bogus")]

TrackingRows ==
    {GoodRow, OtherGoodRow, UnparseableRow, UnknownCompanyRow, PaddedCompanyRow,
     ArrayRow, UnmappedStatusRow} \cup BlankRows

\* an order row: order 1001, one unit of SKU-A
OrderRow ==
    [order_id |-> Str("1001"), seller_sku |-> Str("SKU-A"), quantity |-> IntCell(1),
     sku_name |-> Str("Item A"), market_place_match_id |-> Str("M-1"),
     order_item_id |-> Str("I-1"),
     order_created_at |-> Str("2024-05-01 10:00:00"),
     shipping_promise_date |-> Timestamp("2024-05-01T10:00:00", "+00:00"),
     shipping_id |-> Str("S-1"), status |-> Str("paid"),
     shipping_status |-> Str("ready_to_ship"), logistic_type |-> Str("fulfillment"),
     marketplace |-> Str("meli")]

\* further rows: another line and a repeated line of order 1001, orders 1003
\* (without a promise date, without an order_item_id) and 1002, and orders
\* whose creation date is missing, unparseable or does
\* not exist in Chile, whose quantity is NaN, and whose order_id is None
OrderRows ==
    {OrderRow,
     [OrderRow EXCEPT !.seller_sku = Str("SKU-B"), !.order_item_id = Str("I-2")],
     [OrderRow EXCEPT !.quantity = IntCell(3), !.order_item_id = Str("I-3")],
     [OrderRow EXCEPT !.order_id = Str("1003"), !.shipping_promise_date = NaT],
     [OrderRow EXCEPT !.order_id = Str("1003"), !.order_item_id = Str("")],
     [OrderRow EXCEPT !.order_id = Str("1002")],
     [OrderRow EXCEPT !.order_id = Str("1002"), !.order_created_at = None],
     [OrderRow EXCEPT !.order_id = Str("1002"), !.order_created_at = Str("not a date")],
     [OrderRow EXCEPT !.order_id = Str("1002"),
                      !.order_created_at = Str("2024-09-08 00:30:00")],
     [OrderRow EXCEPT !.order_id = Str("1002"), !.quantity = NaN],
     [OrderRow EXCEPT !.order_id = None]}

\* the data frames of at most n rows over a set of rows
Frames(rows, n) == UNION {[1..k -> rows] : k \in 0..n}

\* the dispatcher, the entry point and the network are not involved
Untouched ==
    /\ max_retries = MAX_RETRY_ATTEMPTS
    /\ batch_size = BATCH_SIZE
    /\ pc = "start"
    /\ event_batches = << >>
    /\ batch_index = 0
    /\ retry_count = 0
    /\ success_count = 0
    /\ error_count = 0
    /\ errors = << >>
    /\ result = NoResult
    /\ last = NoPost
    /\ sleeps = << >>
    /\ posts = 0
    /\ retried = {}
    /\ requests = 0
    /\ attempted = {}
    /\ env = AllSet
    /\ connectivity = NoProbe
    /\ response = NoResponse
    /\ net = << >>

TransformInit ==
    /\ flow \in {"tracking", "orders"}
    /\ df \in IF flow = "tracking" THEN Frames(TrackingRows, MaxRows)
                                  ELSE Frames(OrderRows, MaxRows)
    /\ stage = "transform"
    /\ events = << >>
    /\ skipped_count = 0
    /\ Untouched
    /\ StatusLoaded

\* ShipmentTransformerService().transform_to_tracking_events(df)
TransformTracking ==
    /\ stage = "transform"
    /\ flow = "tracking"
    /\ LET t == transform_to_tracking_events(df)
       IN  /\ events' = t.tracking_events
           /\ skipped_count' = t.skipped_count
           /\ stage' = IF t.raised THEN "raised" ELSE "transformed"
    /\ UNCHANGED << tables, imported, args, normalized,
                    flow, max_retries, batch_size, pc, event_batches, batch_index,
                    retry_count, success_count, error_count, errors, result, last,
                    sleeps, posts, retried, requests, attempted, env, df,
                    connectivity, response, net >>

\* OrderTransformerService().transform_to_webhooks(df)
TransformOrders ==
    /\ stage = "transform"
    /\ flow = "orders"
    /\ events' = transform_to_webhooks(df)
    /\ stage' = "transformed"
    /\ UNCHANGED << tables, imported, args, normalized,
                    flow, max_retries, batch_size, pc, event_batches, batch_index,
                    retry_count, success_count, error_count, errors, result, last,
                    sleeps, posts, retried, requests, attempted, env, df,
                    skipped_count, connectivity, response, net >>

TransformNext == TransformTracking \/ TransformOrders

TransformSpec == TransformInit /\ [][TransformNext]_vars

-----------------------------------------------------------------------------
(* The entry points: sync_shipment_tracking and process_orders *)

\* Config.validate(): ValueError when SUPABASE_URL or SUPABASE_SERVICE_ROLE_KEY
\* is not set
validate(e) == IF ~e.url \/ ~e.key THEN Raise("ValueError") ELSE Ok(TRUE)

\* response.text[:200] in the messages of test_connectivity
PROBE_TEXT_LIMIT == 200

\* what test_connectivity returns
ProbeResult(ok, message) == [probed |-> TRUE, ok |-> ok, message |-> message]

\* a connect timeout: a ConnectionError as well as a Timeout; test_connectivity
\* catches ConnectionError first
ConnectTimeout == [kind |-> "ConnectTimeout"]

\* faulty variant: a 5xx response fails the probe
test_connectivity_5xx_fails(outcome) ==
    CASE outcome.kind = "response" ->
           LET text == TextPrefix(outcome.text, PROBE_TEXT_LIMIT)
           IN  IF outcome.status = 400
               THEN ProbeResult(TRUE, Message("Connectivity OK - Got expected validation error",
                                              outcome.status, text))
               ELSE IF outcome.status = 401
               THEN ProbeResult(FALSE, Message("Authentication failed", outcome.status, text))
               ELSE IF outcome.status = 404
               THEN ProbeResult(FALSE, Message("Endpoint not found", outcome.status, text))
               ELSE IF outcome.status >= 500
               THEN ProbeResult(FALSE, Message("Server error", outcome.status, text))
               ELSE ProbeResult(TRUE, Message("Connectivity OK - Got response",
                                              outcome.status, text))
      [] outcome.kind \in {"ConnectionError", "ConnectTimeout"} ->
           ProbeResult(FALSE, Message("Connection failed", 0, 0))
      [] outcome.kind = "Timeout" ->
           ProbeResult(FALSE, Message("Request timed out", 0, 0))
      [] OTHER ->
           ProbeResult(FALSE, Message("Test failed", 0, 0))

\* SupabaseService.test_connectivity, on the outcome of its requests.post
test_connectivity(outcome) ==
    CASE outcome.kind = "response" ->
           LET text == TextPrefix(outcome.text, PROBE_TEXT_LIMIT)
           IN  IF outcome.status = 400
               THEN ProbeResult(TRUE, Message("Connectivity OK - Got expected validation error",
                                              outcome.status, text))
               ELSE IF outcome.status = 401
               THEN ProbeResult(FALSE, Message("Authentication failed", outcome.status, text))
               ELSE IF outcome.status = 404
               THEN ProbeResult(FALSE, Message("Endpoint not found", outcome.status, text))
               ELSE ProbeResult(TRUE, Message("Connectivity OK - Got response",
                                              outcome.status, text))
      [] outcome.kind \in {"ConnectionError", "ConnectTimeout"} ->
           ProbeResult(FALSE, Message("Connection failed", 0, 0))
      [] outcome.kind = "Timeout" ->
           ProbeResult(FALSE, Message("Request timed out", 0, 0))
      [] OTHER ->
           ProbeResult(FALSE, Message("Test failed", 0, 0))

\* faulty variant: the dispatch goes ahead whatever the probe found
ProbeIgnored(c) == FALSE

\* main.py line 55: if not connectivity_ok
ProbeFailed(c) == ~c.ok

\* the outcomes of the probe's request
ProbeOutcomes ==
    {Response(200, 20, EmptyObject), Response(400, 250, NotJson),
     Response(401, 150, NotJson), Response(403, 150, NotJson),
     Response(404, 250, NotJson), Response(500, 150, NotJson),
     ConnectionError, ConnectTimeout, Timeout, RequestException, OtherException}

\* a summary with more per-item messages than to_dict returns
LongSummary ==
    [json |-> "object",
     value |-> [created |-> 0, updated |-> 0, skipped |-> 0, errors |-> ERRORS_LIMIT + 1,
                details |-> [error_messages |->
                                [i \in 1..(ERRORS_LIMIT + 1) |->
                                    [src |-> "item", index |-> i,
                                     msg |-> [kind |-> "item", status |-> 0, text |-> 0]]]]]]

\* the responses to the delivery requests of an invocation
MainResponses == Responses \cup {Response(200, 20, LongSummary)}

\* what the data source returns to the tracking entry point
TrackingFrames == Frames({GoodRow, UnknownCompanyRow}, MaxRows)

\* what the data source returns to the orders entry point
OrderFrames ==
    {<< >>,
     << OrderRow >>,
     << [OrderRow EXCEPT !.order_created_at = None] >>,
     << [OrderRow EXCEPT !.order_id = Str("1002")], OrderRow >>,
     << OrderRow, [OrderRow EXCEPT !.order_id = Str("1002"), !.quantity = NaN] >>}

\* the retry limits and batch sizes configured for an invocation
MainConfigs == {<< 0, 1 >>, << 1, 1 >>, << 0, 2 >>}

MainInit ==
    /\ flow \in {"tracking", "orders"}
    /\ env \in [url : BOOLEAN, key : BOOLEAN]
    /\ \E c \in MainConfigs :
          /\ max_retries = c[1]
          /\ batch_size = IF flow = "tracking" THEN c[2] ELSE 1
    /\ stage = "start"
    /\ df = << >>
    /\ events = << >>
    /\ skipped_count = 0
    /\ pc = "start"
    /\ event_batches = << >>
    /\ batch_index = 0
    /\ retry_count = 0
    /\ success_count = 0
    /\ error_count = 0
    /\ errors = << >>
    /\ result = NoResult
    /\ last = NoPost
    /\ sleeps = << >>
    /\ posts = 0
    /\ retried = {}
    /\ requests = 0
    /\ attempted = {}
    /\ connectivity = NoProbe
    /\ response = NoResponse
    /\ net = << >>
    /\ StatusLoaded

\* sync_shipment_tracking, from its start to the request of the probe: the
\* fetch, the transformation and the construction of SupabaseService
sync_shipment_tracking ==
    /\ stage = "start"
    /\ flow = "tracking"
    /\ net' = Append(net, "fetch")
    /\ \E fetched \in {Raise("GoogleAPIError")} \cup {Ok(f) : f \in TrackingFrames} :
          IF fetched.raised
          THEN /\ response' = Failed(fetched.error)
               /\ stage' = "return"
               /\ UNCHANGED << df, events, skipped_count >>
          ELSE LET t == transform_to_tracking_events(fetched.value)
               IN  /\ df' = fetched.value
                   /\ IF fetched.value = << >>
                      THEN /\ response' = NothingToDo("No tracking events to process")
                           /\ stage' = "return"
                           /\ UNCHANGED << events, skipped_count >>
                      ELSE /\ skipped_count' = t.skipped_count
                           /\ events' = t.tracking_events
                           /\ IF t.raised
                              THEN /\ response' = Failed("Exception")
                                   /\ stage' = "return"
                              ELSE IF t.tracking_events = << >>
                              THEN /\ response' =
                                          NothingToDo("No valid tracking events to process")
                                   /\ stage' = "return"
                              ELSE IF validate(env).raised
                              THEN /\ response' = Failed(validate(env).error)
                                   /\ stage' = "return"
                              ELSE /\ stage' = "probe"
                                   /\ UNCHANGED response
    /\ UNCHANGED << tables, imported, args, normalized,
                    flow, max_retries, batch_size, pc, event_batches, batch_index,
                    retry_count, success_count, error_count, errors, result, last,
                    sleeps, posts, retried, requests, attempted, env, connectivity >>

\* the request of test_connectivity with the given outcome, and everything up
\* to the first delivery request: the return on a failed probe, or the start
\* of send_tracking_events (the payload list is not empty here)
Probe(outcome) ==
    /\ stage = "probe"
    /\ net' = Append(net, "probe")
    /\ connectivity' = test_connectivity(outcome)
    /\ IF ProbeFailed(connectivity')
       THEN /\ response' = Failed(connectivity'.message)
            /\ stage' = "return"
            /\ UNCHANGED << pc, event_batches >>
       ELSE /\ event_batches' = _chunk_events(events, batch_size)
            /\ pc' = "sending"
            /\ stage' = "send"
            /\ UNCHANGED response
    /\ UNCHANGED << tables, imported, args, normalized,
                    flow, max_retries, batch_size, events, batch_index, retry_count,
                    success_count, error_count, errors, result, last, sleeps, posts,
                    retried, requests, attempted, env, df, skipped_count >>

SyncProbe == \E outcome \in ProbeOutcomes : Probe(outcome)

\* process_orders, from its start to the first delivery request: the fetch,
\* the transformation, the construction of WebhookService (which validates
\* nothing) and the start of send_batch
process_orders ==
    /\ stage = "start"
    /\ flow = "orders"
    /\ net' = Append(net, "fetch")
    /\ \E fetched \in {Raise("GoogleAPIError")} \cup {Ok(f) : f \in OrderFrames} :
          IF fetched.raised
          THEN /\ response' = Failed(fetched.error)
               /\ stage' = "return"
               /\ UNCHANGED << df, events, pc, result >>
          ELSE /\ df' = fetched.value
               /\ IF fetched.value = << >>
                  THEN /\ response' = NothingToDo("No orders to process")
                       /\ stage' = "return"
                       /\ UNCHANGED << events, pc, result >>
                  ELSE LET webhooks == transform_to_webhooks(fetched.value)
                       IN  /\ events' = webhooks
                           /\ IF webhooks = << >>
                              THEN /\ result' = Result(0, success_count, error_count, errors)
                                   /\ pc' = "returned"
                                   /\ response' = Completed(result')
                                   /\ stage' = "return"
                              ELSE /\ pc' = "sending"
                                   /\ stage' = "send"
                                   /\ UNCHANGED << result, response >>
    /\ UNCHANGED << tables, imported, args, normalized,
                    flow, max_retries, batch_size, event_batches, batch_index,
                    retry_count, success_count, error_count, errors, last, sleeps,
                    posts, retried, requests, attempted, env, skipped_count,
                    connectivity >>

\* the delivery requests of an invocation.  Without an endpoint URL
\* requests.post raises MissingSchema, a RequestException, and sends nothing
Deliver ==
    \/ \E resp \in MainResponses : env.url /\ Post(resp)
    \/ env.url /\ Post(Timeout)
    \/ env.url /\ Post(ConnectionError)
    \/ Post(RequestException)
    \/ env.url /\ Post(OtherException)

MainNext ==
    \/ sync_shipment_tracking
    \/ SyncProbe
    \/ process_orders
    \/ Deliver

MainSpec == MainInit /\ [][MainNext]_vars

\* every request returns or raises within its timeout
MainFairSpec == MainSpec /\ WF_vars(MainNext)

-----------------------------------------------------------------------------
(* Vocabulary of the properties of an invocation *)

\* the entry point has returned
Responded == stage = "return"
\* the summary of a dispatch that ran to its end
CompletedSummary == Responded /\ response.body.status = "completed"
\* a required setting is not set
ConfigMissing == ~env.url \/ ~env.key
\* the messages of a probe that failed
ProbeFailureKinds ==
    {"Authentication failed", "Endpoint not found", "Connection failed",
     "Request timed out", "Test failed"}

-----------------------------------------------------------------------------
-----------------------------------------------------------------------------
(* C14: after a probe that failed (authentication rejected, endpoint not   *)
(* found, connection failure, timeout or another fault) the invocation has *)
(* returned an error summary with status 500 and has issued no delivery    *)
(* request, and never will: it is over; and whenever the tracking entry    *)
(* point has issued a delivery request, it was after the fetch and one     *)
(* probe that was classified as success.                                   *)
C14_ProbeGate ==
    /\ (connectivity.probed /\ connectivity.message.kind \in ProbeFailureKinds) =>
          /\ Responded
          /\ response.code = 500
          /\ response.body.status = "error"
          /\ response.body.message = connectivity.message
          /\ requests = 0
          /\ ~Posted
          /\ pc = "start"
          /\ ~ENABLED MainNext
    /\ (flow = "tracking" /\ (requests > 0 \/ pc # "start")) =>
          /\ connectivity.probed
          /\ connectivity.ok
          /\ connectivity.message.kind \notin ProbeFailureKinds
          /\ net = << "fetch", "probe" >>

\* the probe was answered 401 and the invocation returned 500
C14_Witness ==
    /\ connectivity.probed
    /\ connectivity.message.kind = "Authentication failed"
    /\ Responded
    /\ response.code = 500
    /\ events # << >>
    /\ requests = 0

-----------------------------------------------------------------------------
(* C15: the probe classifies every outcome of its request: a 400 is a      *)
(* success, a 401 a failure reported as an authentication failure, a 404 a *)
(* failure reported as endpoint not found, every other status (200, 403,   *)
(* 5xx) a success, and a connection error, a timeout or any other          *)
(* exception a failure.                                                    *)
C15_ProbeClassification ==
    /\ \A o \in ProbeOutcomes :
          LET c == test_connectivity(o)
          IN  /\ c.ok = (o.kind = "response" /\ o.status \notin {401, 404})
              /\ (o.kind = "response" /\ o.status = 401) =>
                     c.message.kind = "Authentication failed"
              /\ (o.kind = "response" /\ o.status = 404) =>
                     c.message.kind = "Endpoint not found"
              /\ (o.kind = "response" /\ o.status \notin {401, 404}) =>
                     c.message.kind \notin ProbeFailureKinds
              /\ (o.kind # "response") =>
                     c.message.kind \in ProbeFailureKinds \ {"Authentication failed",
                                                             "Endpoint not found"}
    /\ connectivity.probed =>
          /\ \E o \in ProbeOutcomes : connectivity = test_connectivity(o)
          /\ connectivity.ok = (connectivity.message.status \notin {0, 401, 404})

\* the probe was answered 500, was classified as success, and the dispatch began
C15_Witness ==
    /\ connectivity.probed
    /\ connectivity.ok
    /\ connectivity.message.status = 500
    /\ stage = "send"
    /\ requests >= 1

-----------------------------------------------------------------------------
(* C16 as stated: when the endpoint URL or the credential is not set, the  *)
(* invocation issues no data-source fetch, no probe and no delivery        *)
(* request, and fails (status 500), in both flows.                         *)
C16_NoNetworkWithoutConfig ==
    ConfigMissing =>
        /\ net = << >>
        /\ requests = 0
        /\ Responded => response.code = 500

-----------------------------------------------------------------------------
(* C17: an invocation that has returned has returned a summary with a      *)
(* status code, whatever happened: 200 and 'success' when there was        *)
(* nothing to deliver, 200 and 'completed' with the failed count when the  *)
(* dispatch ran to its end, even when every batch failed, and 500 and      *)
(* 'error' after a failed probe, after the configuration error that        *)
(* Config.validate raises, and after any other fault (a failed fetch, an   *)
(* exception out of the dispatch); an invocation stops only by returning.  *)
C17_Summary ==
    /\ Responded =>
          /\ response.code \in {200, 500}
          /\ response.body.status \in {"success", "completed", "error"}
          /\ response.body.status = "success" =>
                response.code = 200 /\ events = << >> /\ requests = 0
          /\ response.body.status = "completed" =>
                /\ response.code = 200
                /\ pc = "returned"
                /\ response.body.failed = result.failed
                /\ result.failed = error_count
          /\ response.body.status = "error" => response.code = 500
          /\ (pc = "returned") => response.body.status = "completed"
          /\ (pc = "raised") => response.body.status = "error"
          /\ (connectivity.probed /\ ~connectivity.ok) => response.body.status = "error"
          /\ (flow = "tracking" /\ ConfigMissing /\ events # << >>) =>
                response.body.status = "error" /\ ~connectivity.probed
          /\ (net = << "fetch" >> /\ df = << >>) =>
                response.body.status \in {"success", "error"}
    /\ ~Responded => ENABLED MainNext
    /\ pc \in {"returned", "raised"} => Responded

-----------------------------------------------------------------------------
(* Vocabulary of the properties of the transformers *)

\* the transformation is over
TransformDone == stage \in {"transformed", "raised"}
\* a required field of the row is missing, null or blank
HasBlank(row) == \E i \in 1..Len(required_fields) : row[required_fields[i]] \in Blanks
\* the timestamp of the row is a text that does not parse
Unparseable(row) ==
    /\ row.event_timestamp.kind = "str"
    /\ row.event_timestamp.s \notin {"2024-05-01 10:00:00", "2024-05-01T10:00:00-04:00"}
\* the company reference of the row is not a key of the lookup table
Unresolved(row) ==
    row.company_id.kind # "str" \/ row.company_id.s \notin DOMAIN COMPANY_NAME_TO_UUID
\* the row passes the validation, its timestamp parses and its company resolves
ValidRow(row) == ~HasBlank(row) /\ ~Unparseable(row) /\ ~Unresolved(row)
\* what the transformer makes of the row alone
Alone(row) == transform_to_tracking_events(<< row >>)
\* the values of the company lookup table
CompanyUuids == {COMPANY_NAME_TO_UUID[c] : c \in DOMAIN COMPANY_NAME_TO_UUID}
\* the order of the group is valid: its creation date converts and the
\* quantities of its lines are integers
ValidOrder(rows, order_id) ==
    LET group == SelectSeq(rows, LAMBDA row : row.order_id = Str(order_id))
    IN  /\ group # << >>
        /\ group[1].order_created_at \in
               {Str("2024-05-01 10:00:00"), Timestamp("2024-05-01T10:00:00", "+00:00")}
        /\ \A i \in 1..Len(group) : group[i].quantity.kind = "int"

-----------------------------------------------------------------------------
(* C18: whatever the rows, a row with a missing, null or blank required    *)
(* field (order id, marketplace, company, status, timestamp) produces no   *)
(* payload, and when the transformation is over the number of payloads     *)
(* plus the skipped count is the number of rows.                           *)
C18_RowsAccounted ==
    (flow = "tracking" /\ TransformDone) =>
        /\ Len(events) + skipped_count = Len(df)
        /\ Len(events) <= Len(SelectSeq(df, LAMBDA row : ~HasBlank(row)))
        /\ skipped_count >= Len(SelectSeq(df, HasBlank))
        /\ \A i \in 1..Len(df) :
              HasBlank(df[i]) =>
                  /\ Alone(df[i]).tracking_events = << >>
                  /\ Alone(df[i]).skipped_count = 1

\* a row with a blank required field, skipped, before a row that gave a payload
C18_Witness ==
    /\ flow = "tracking"
    /\ stage = "transformed"
    /\ Len(df) = 2
    /\ df[1] = [GoodRow EXCEPT !.event_status = Str(" ")]
    /\ df[2] = GoodRow
    /\ Len(events) = 1
    /\ skipped_count = 1

-----------------------------------------------------------------------------
(* C19: every payload of the tracking transformer has the five required    *)
(* fields, none of them blank: its status is one of the canonical          *)
(* statuses, its company identifier a value of the company lookup table,   *)
(* its timestamp the ISO 8601 form, with an offset, of a timestamp that    *)
(* parsed; and a row whose timestamp does not parse or whose company does  *)
(* not resolve gives no payload at all.                                    *)
C19_PayloadsWellFormed ==
    (flow = "tracking" /\ TransformDone) =>
        /\ \A k \in 1..Len(events) :
              LET e == events[k]
              IN  /\ Range(required_fields) \subseteq DOMAIN e
                  /\ Strip(e.marketplace_order_id) # ""
                  /\ Strip(e.marketplace) # ""
                  /\ e.event_status \in Range(get_supported_statuses)
                  /\ e.company_id \in CompanyUuids
                  /\ e.event_timestamp.kind = "iso8601"
                  /\ e.event_timestamp.at = "2024-05-01T10:00:00"
                  /\ e.event_timestamp.offset \in {"+00:00", "-04:00"}
        /\ \A i \in 1..Len(df) :
              (Unparseable(df[i]) \/ Unresolved(df[i])) =>
                  Alone(df[i]).tracking_events = << >>
        /\ Len(events) <= Len(SelectSeq(df, ValidRow))

\* a row whose company does not resolve was dropped, and the next row gave a
\* payload with a canonical status, the company's UUID and a UTC timestamp
C19_Witness ==
    /\ flow = "tracking"
    /\ stage = "transformed"
    /\ df = << UnknownCompanyRow, GoodRow >>
    /\ Len(events) = 1
    /\ events[1].event_status = "dispatched"
    /\ events[1].company_id = "c12585ee-c8f4-4103-b7f0-37bd62401a65"
    /\ events[1].event_timestamp.offset = "+00:00"
    /\ events[1].marketplace = "meli"

-----------------------------------------------------------------------------
-----------------------------------------------------------------------------
(* C21: in every payload of the tracking transformer each optional field   *)
(* (event_location, courier_name, tracking_number, notes) is present       *)
(* exactly when the value of the row is present and not blank, and then    *)
(* it is that value without the blanks around it; no optional field is     *)
(* emitted as null or as an empty text.                                    *)
C21_OptionalFields ==
    (flow = "tracking" /\ stage = "transformed") =>
        LET valid == SelectSeq(df, ValidRow)
        IN  /\ Len(events) = Len(valid)
            /\ \A k \in 1..Len(valid) :
                  \A i \in 1..Len(optional_fields) :
                      LET f == optional_fields[i]
                          value == valid[k][f]
                          e == events[k]
                      IN  /\ (f \in DOMAIN e) <=> (value \notin Blanks)
                          /\ (f \in DOMAIN e) =>
                                 /\ e[f] = Strip(value.s)
                                 /\ e[f] \notin {"", " "}
                                 /\ Strip(e[f]) = e[f]

\* a payload with the location trimmed and the courier name, tracking number
\* and notes (None, NaN and blank in the row) left out
C21_Witness ==
    /\ flow = "tracking"
    /\ stage = "transformed"
    /\ df = << OtherGoodRow, GoodRow >>
    /\ Len(events) = 2
    /\ DOMAIN events[2] = Range(required_fields) \cup {"event_location"}
    /\ events[2].event_location = "Santiago"
    /\ DOMAIN events[1] = Range(required_fields) \cup {"courier_name", "tracking_number"}

-----------------------------------------------------------------------------
(* C22: in every order payload of the grouped flow an optional field       *)
(* whose value in the rows is absent or blank (the shipping promise date,  *)
(* the order_item_id of a line) is left out of the payload, and is never   *)
(* emitted as null or as an empty text.                                    *)
C22_OptionalOmitted ==
    (flow = "orders" /\ stage = "transformed") =>
        \A k \in 1..Len(events) :
            LET e == events[k]
                group == Group(df, e.order)
            IN  /\ ("shipping_promise_date" \in DOMAIN e) <=>
                       (group[1].shipping_promise_date \notin Blanks)
                /\ ("shipping_promise_date" \in DOMAIN e) =>
                       e.shipping_promise_date # None
                /\ \A sku \in DOMAIN e.sku :
                       /\ ("order_item_id" \in DOMAIN e.sku[sku]) <=>
                              (\E i \in 1..Len(group) :
                                   /\ PyStr(group[i].seller_sku) = sku
                                   /\ group[i].order_item_id \notin Blanks)
                       /\ ("order_item_id" \in DOMAIN e.sku[sku]) =>
                              e.sku[sku].order_item_id # ""

-----------------------------------------------------------------------------
(* The status module on its own: the import of utils/status_mapping.py,    *)
(* which validates the tables, and one call of normalize_status            *)

\* the texts of the tables: the keys of the marketplace tables and the aliases of
\* the general table
TableTexts ==
    UNION {DOMAIN MARKETPLACE_STATUS_MAPPING[m] : m \in DOMAIN MARKETPLACE_STATUS_MAPPING}
    \cup UNION {Range(PLUGUP_STATUS_MAPPING[i][2]) : i \in 1..Len(PLUGUP_STATUS_MAPPING)}

\* the statuses normalize_status is called with: the texts of the tables, texts
\* in another case or with blanks around them, the empty and the blank text, a
\* text no table lists, and None
StatusArgs ==
    {Str(s) : s \in TableTexts \cup {"Shipped", " Delivered ", "EN TRÁNSITO", "",
                                     " ", "in_review"}}
    \cup {None}

\* the marketplaces it is called with: those of the tables, in another case or
\* with blanks, the empty and the blank text, one without a table, and None
MarketplaceArgs ==
    {Str(m) : m \in {"meli", "fala", "walm", "cenc", "MELI", " Walm ", "", " ",
                     "ripl"}}
    \cup {None}

\* the marketplace tables of the module that is loaded: those of the
\* repository, and tables in which an entry was edited to a status that
\* PLUGUP_STATUS_MAPPING does not have
LoadedTables ==
    {MARKETPLACE_STATUS_MAPPING,
     [MARKETPLACE_STATUS_MAPPING EXCEPT !.walm.shipped = "shipped"],
     [MARKETPLACE_STATUS_MAPPING EXCEPT !.cenc["en tránsito"] = "in-transit"]}

StatusInit ==
    /\ tables \in LoadedTables
    /\ imported = "loading"
    /\ args \in StatusArgs \X MarketplaceArgs
    /\ normalized = ""
    /\ flow = "tracking"
    /\ df = << >>
    /\ stage = "import"
    /\ events = << >>
    /\ skipped_count = 0
    /\ Untouched

\* import utils.status_mapping: line 142 runs validate_status_mapping(); when it
\* raises, the module is not there and nothing can call normalize_status
Import ==
    /\ stage = "import"
    /\ imported = "loading"
    /\ imported' = IF validate_status_mapping(tables).raised THEN "failed" ELSE "loaded"
    /\ stage' = IF validate_status_mapping(tables).raised THEN "raised" ELSE "call"
    /\ UNCHANGED << tables, args, normalized,
                    flow, max_retries, batch_size, events, pc, event_batches,
                    batch_index, retry_count, success_count, error_count, errors,
                    result, last, sleeps, posts, retried, requests, attempted, env,
                    df, skipped_count, connectivity, response, net >>

\* normalize_status(raw_status, marketplace)
Normalize ==
    /\ stage = "call"
    /\ imported = "loaded"
    /\ normalized' = normalize_status(args[1], args[2])
    /\ stage' = "returned"
    /\ UNCHANGED << tables, imported, args,
                    flow, max_retries, batch_size, events, pc, event_batches,
                    batch_index, retry_count, success_count, error_count, errors,
                    result, last, sleeps, posts, retried, requests, attempted, env,
                    df, skipped_count, connectivity, response, net >>

StatusNext == Import \/ Normalize

StatusSpec == StatusInit /\ [][StatusNext]_vars

\* normalize_status has returned
Returned == stage = "returned"

\* the arguments as lower().strip() leaves them
CleanStatus == Strip(Lower(PyStr(args[1])))
CleanMarketplace == Strip(Lower(PyStr(args[2])))

\* the canonical statuses whose aliases in the general table hold a text
Listing(text) ==
    {PLUGUP_STATUS_MAPPING[i][1] : i \in {j \in 1..Len(PLUGUP_STATUS_MAPPING) :
                                            text \in Range(PLUGUP_STATUS_MAPPING[j][2])}}

-----------------------------------------------------------------------------
(* C23: for every marketplace m of the marketplace tables and every raw    *)
(* status s that is a key of the table of m, normalize_status(s, m)        *)
(* returns exactly the canonical status the table maps s to.               *)
C23_SpecificTable ==
    (/\ Returned
     /\ args[2].kind = "str"
     /\ args[1].kind = "str"
     /\ args[2].s \in DOMAIN MARKETPLACE_STATUS_MAPPING
     /\ args[1].s \in DOMAIN MARKETPLACE_STATUS_MAPPING[args[2].s])
        => normalized = MARKETPLACE_STATUS_MAPPING[args[2].s][args[1].s]

\* walm 'acknowledged', which the general table lists under 'pending', gave
\* 'ready_to_ship'
C23_Witness ==
    /\ Returned
    /\ args = << Str("acknowledged"), Str("walm") >>
    /\ normalized = "ready_to_ship"

-----------------------------------------------------------------------------
(* C24: normalize_status is total and never raises: when the cleaned       *)
(* status is neither a key of the table of the marketplace nor an alias of *)
(* the general table, and when the status or the marketplace is empty or   *)
(* missing, it returns 'pending'; and whatever the arguments, the result   *)
(* is one of the canonical statuses.                                       *)
C24_TotalWithDefault ==
    /\ (stage = "call" /\ imported = "loaded") => ENABLED Normalize
    /\ Returned =>
          /\ normalized \in Range(get_supported_statuses)
          /\ (args[1] \in {None, Str("")} \/ args[2] \in {None, Str("")})
                 => normalized = "pending"
          /\ (/\ args[1] # None
              /\ args[2] # None
              /\ ~(/\ CleanMarketplace \in DOMAIN MARKETPLACE_STATUS_MAPPING
                   /\ CleanStatus \in DOMAIN MARKETPLACE_STATUS_MAPPING[CleanMarketplace])
              /\ Listing(CleanStatus) = {})
                 => normalized = "pending"

\* a status that no table lists, for a known marketplace, gave 'pending'
C24_Witness ==
    /\ Returned
    /\ args = << Str("in_review"), Str("meli") >>
    /\ normalized = "pending"

-----------------------------------------------------------------------------
(* C25: normalize_status resolves in a fixed order.  An entry of the table *)
(* of the marketplace wins over the general table also when the general    *)
(* table lists the text under another canonical status (walm               *)
(* 'acknowledged' gives 'ready_to_ship', not 'pending'; cenc 'en tránsito' *)
(* gives 'in_transit'); the general table decides only when the            *)
(* marketplace has no entry for the text; the default is returned only     *)
(* when both fail.                                                         *)
C25_ResolutionOrder ==
    (Returned /\ args[1] \notin {None, Str("")} /\ args[2] \notin {None, Str("")}) =>
        LET specific == /\ CleanMarketplace \in DOMAIN MARKETPLACE_STATUS_MAPPING
                        /\ CleanStatus \in DOMAIN MARKETPLACE_STATUS_MAPPING[CleanMarketplace]
        IN  /\ specific =>
                   normalized = MARKETPLACE_STATUS_MAPPING[CleanMarketplace][CleanStatus]
            /\ (~specific /\ Listing(CleanStatus) # {}) =>
                   normalized \in Listing(CleanStatus)
            /\ (~specific /\ Listing(CleanStatus) = {}) => normalized = "pending"
            /\ (CleanMarketplace = "walm" /\ CleanStatus = "acknowledged") =>
                   normalized = "ready_to_ship"
            /\ (CleanMarketplace = "cenc" /\ CleanStatus = "en tránsito") =>
                   normalized = "in_transit"

\* cenc 'en tránsito' in capitals, which the general table lists first under
\* 'dispatched', gave 'in_transit'
C25_Witness ==
    /\ Returned
    /\ args = << Str("EN TRÁNSITO"), Str("cenc") >>
    /\ normalized = "in_transit"
    /\ "dispatched" \in Listing("en tránsito")

\* the general table decided: meli has no entry for 'entregada'
C25_GeneralWitness ==
    /\ Returned
    /\ args = << Str("entregada"), Str("meli") >>
    /\ normalized = "delivered"

-----------------------------------------------------------------------------
(* C26: normalize_status is insensitive to letter case and to blanks       *)
(* around both arguments: for all texts s and m,                           *)
(* normalize_status(s, m) = normalize_status(lower(trim(s)), lower(trim(m))). *)
C26_CaseAndBlanksIgnored ==
    (Returned /\ args[1] # None /\ args[2] # None) =>
        normalized = normalize_status(Str(Lower(Strip(args[1].s))),
                                      Str(Lower(Strip(args[2].s))))

\* the statuses that the marketplace tables t map to
TableValues(t) == UNION {{t[m][s] : s \in DOMAIN t[m]} : m \in DOMAIN t}

-----------------------------------------------------------------------------
(* C27: every canonical status that is a value of a marketplace table is a  *)
(* key of the general table; this is checked once, when the status module  *)
(* is loaded, and loading fails with an error, so that no normalize_status *)
(* call can run, when an entry of a marketplace table is a status outside  *)
(* the canonical set.                                                      *)
C27_TablesValidated ==
    /\ TableValues(MARKETPLACE_STATUS_MAPPING) \subseteq Range(get_supported_statuses)
    /\ imported = "loaded" => TableValues(tables) \subseteq Range(get_supported_statuses)
    /\ (imported # "loading" /\ ~(TableValues(tables) \subseteq Range(get_supported_statuses)))
           => imported = "failed" /\ stage = "raised"
    /\ imported # "loaded" => ~ENABLED Normalize /\ normalized = ""
    /\ Returned => imported = "loaded"

\* the module with an edited entry failed to load, and nothing was normalized
C27_Witness ==
    /\ imported = "failed"
    /\ tables.walm.shipped = "shipped"
    /\ stage = "raised"
    /\ normalized = ""
    /\ ~ENABLED StatusNext

-----------------------------------------------------------------------------
(* C28: the transformation is deterministic and idempotent: the same row,  *)
(* or the same table of rows, transformed again gives the same payloads,   *)
(* and the payload of a row does not depend on the rows transformed before *)
(* it: the payloads of a table are those of its rows, each transformed on  *)
(* its own, in the order of the rows.                                      *)
C28_RowsIndependent ==
    (flow = "tracking" /\ stage = "transformed") =>
        /\ transform_to_tracking_events(df).tracking_events = events
        /\ events = Concat([i \in 1..Len(df) |-> Alone(df[i]).tracking_events])

\* the same valid row twice in a table gave the same payload twice
C28_Witness ==
    /\ flow = "tracking"
    /\ stage = "transformed"
    /\ df = << GoodRow, GoodRow >>
    /\ Len(events) = 2
    /\ events[1] = events[2]
    /\ events[1] = Alone(GoodRow).tracking_events[1]

-----------------------------------------------------------------------------
(* C29: in the grouped flow the total line count is preserved: for every    *)
(* order, the number of line items in the item mapping of its payload is   *)
(* the number of rows of that order in the input, also when two rows of    *)
(* the order carry the same item identifier: no row is overwritten by a    *)
(* later one.                                                              *)
C29_LineCountPreserved ==
    (flow = "orders" /\ stage = "transformed") =>
        \A k \in 1..Len(events) :
            Cardinality(DOMAIN events[k].sku) = Len(Group(df, events[k].order))

\* the index of the first row of an order in the rows, the index of a text in a
\* sequence of distinct texts
FirstRow(rows, order_id) ==
    CHOOSE i \in 1..Len(rows) :
        /\ rows[i].order_id = Str(order_id)
        /\ \A j \in 1..(i - 1) : rows[j].order_id # Str(order_id)
Position(seq, text) == CHOOSE i \in 1..Len(seq) : seq[i] = text

-----------------------------------------------------------------------------
(* C30, as stated: the payloads follow the first-occurrence order of the    *)
(* input: in the tracking flow they are the valid rows in source order,    *)
(* and in the grouped flow the order payloads appear in the order in which *)
(* each order identifier first occurs among the rows.                      *)
C30_Original ==
    /\ (flow = "tracking" /\ stage = "transformed") =>
           events = Concat([i \in 1..Len(SelectSeq(df, ValidRow)) |->
                               Alone(SelectSeq(df, ValidRow)[i]).tracking_events])
    /\ (flow = "orders" /\ stage = "transformed") =>
           \A j, k \in 1..Len(events) :
               j < k => FirstRow(df, events[j].order) < FirstRow(df, events[k].order)

(* C30, amended: in the tracking flow the payloads are the valid rows in   *)
(* source order; in the grouped flow the order payloads appear in          *)
(* ascending order of the order identifier, as groupby sorts its keys,     *)
(* wherever the orders first occur among the rows.                         *)
C30_PayloadOrder ==
    /\ (flow = "tracking" /\ stage = "transformed") =>
           events = Concat([i \in 1..Len(SelectSeq(df, ValidRow)) |->
                               Alone(SelectSeq(df, ValidRow)[i]).tracking_events])
    /\ (flow = "orders" /\ stage = "transformed") =>
           \A j, k \in 1..Len(events) :
               j < k => Position(OrderIds, events[j].order) < Position(OrderIds, events[k].order)

\* order 1002 came first in the rows and order 1001 first in the payloads
C30_Witness ==
    /\ flow = "orders"
    /\ stage = "transformed"
    /\ Len(df) = 2
    /\ df[1].order_id = Str("1002")
    /\ df[2].order_id = Str("1001")
    /\ Len(events) = 2
    /\ events[1].order = "1001"
    /\ events[2].order = "1002"

\* the first canonical status, in the order of the general table, whose aliases
\* hold a text that some entry lists
FirstListing(text) ==
    LET i == CHOOSE k \in 1..Len(PLUGUP_STATUS_MAPPING) :
                 /\ text \in Range(PLUGUP_STATUS_MAPPING[k][2])
                 /\ \A j \in 1..(k - 1) : text \notin Range(PLUGUP_STATUS_MAPPING[j][2])
    IN  PLUGUP_STATUS_MAPPING[i][1]

-----------------------------------------------------------------------------
(* C32: the ambiguous raw status 'shipped' has a single resolution: for    *)
(* every marketplace, known or unknown, normalize_status('shipped', m)     *)
(* returns 'dispatched' and never 'in_transit'; more generally, a status   *)
(* that the general table lists under several canonical statuses, and that *)
(* the general table decides, resolves to the first canonical status, in   *)
(* table order, whose alias list holds it.                                 *)
C32_SingleResolution ==
    (Returned /\ args[1] \notin {None, Str("")} /\ args[2] \notin {None, Str("")}) =>
        /\ CleanStatus = "shipped" =>
               normalized = "dispatched" /\ normalized # "in_transit"
        /\ (/\ Cardinality(Listing(CleanStatus)) >= 2
            /\ ~(/\ CleanMarketplace \in DOMAIN MARKETPLACE_STATUS_MAPPING
                 /\ CleanStatus \in DOMAIN MARKETPLACE_STATUS_MAPPING[CleanMarketplace]))
               => normalized = FirstListing(CleanStatus)

\* 'shipped' for cenc, whose table does not have it, and which the general table
\* lists under 'dispatched' and under 'in_transit', gave 'dispatched'
C32_Witness ==
    /\ Returned
    /\ args = << Str("shipped"), Str("cenc") >>
    /\ Listing("shipped") = {"dispatched", "in_transit"}
    /\ normalized = "dispatched"

\* 'shipped' for a marketplace without a table gave 'dispatched'
C32_UnknownWitness ==
    /\ Returned
    /\ args = << Str("Shipped"), Str("ripl") >>
    /\ normalized = "dispatched"

-----------------------------------------------------------------------------
(* C33: in the orders flow (WebhookService.send_batch), whatever the       *)
(* endpoint does, the result returned has total = the number of orders     *)
(* given and successful + failed = total, and its error list holds exactly *)
(* one message per failed order, in the order of delivery.                 *)
C33_OrdersAccounting ==
    /\ (flow = "orders" /\ pc = "sending") =>
           /\ success_count + error_count = batch_index
           /\ Len(errors) = error_count
    /\ (flow = "orders" /\ pc = "returned") =>
           /\ result.total = Len(events)
           /\ result.successful + result.failed = result.total
           /\ result.successful >= 0
           /\ result.failed >= 0
           /\ Len(result.errors) = result.failed
           /\ \A i \in 1..Len(result.errors) :
                  /\ result.errors[i].src = "order"
                  /\ result.errors[i].index \in Range(events)
           /\ \A i, j \in 1..Len(result.errors) :
                  i < j => result.errors[i].index < result.errors[j].index
           /\ (Posted /\ ~SuccessStatus(last.outcome)) =>
                  /\ result.failed >= 1
                  /\ result.errors[result.failed] =
                         ErrorEntry("order", events[last.batch], last.act.message)

\* two orders: the first failed, the second was delivered
C33_Witness ==
    /\ flow = "orders"
    /\ pc = "returned"
    /\ Len(events) = 2
    /\ result.total = 2
    /\ result.successful = 1
    /\ result.failed = 1
    /\ Len(result.errors) = 1
    /\ result.errors[1].index = events[1]
    /\ SuccessStatus(last.outcome)

\* no call of this dispatch has returned a response_data that is not empty
NoSummaryYet == ~Posted \/ ~last.summarised

-----------------------------------------------------------------------------
(* C34: in the tracking flow (send_tracking_events) the total returned is  *)
(* always the number of payloads submitted; and as long as no batch        *)
(* returned a non-empty structured summary (every batch failed, or         *)
(* succeeded with an empty summary), every batch adds its full item count  *)
(* to exactly one of the two counters, so that the result has              *)
(* successful + failed = total.                                            *)
C34_TrackingTotals ==
    /\ (flow = "tracking" /\ pc = "returned") => result.total = Len(events)
    /\ (flow = "tracking" /\ NoSummaryYet) =>
           /\ pc # "raised"
           /\ CallEnded =>
                  IF last.act.success
                  THEN /\ success_count = last.before.success_count + Len(last.payload)
                       /\ error_count = last.before.error_count
                  ELSE /\ error_count = last.before.error_count + Len(last.payload)
                       /\ success_count = last.before.success_count
           /\ pc = "sending" =>
                  success_count + error_count =
                      Len(Concat(SubSeq(event_batches, 1, batch_index)))
           /\ pc = "returned" => result.successful + result.failed = result.total

\* two batches without a summary: the first failed, the second succeeded with
\* an empty body
C34_Witness ==
    /\ flow = "tracking"
    /\ pc = "returned"
    /\ NoSummaryYet
    /\ Len(event_batches) = 2
    /\ last.batch = 2
    /\ last.act.success
    /\ result.failed = Len(event_batches[1])
    /\ result.successful = Len(event_batches[2])
    /\ result.total = Len(events)

\* with a summary the counters need not add up to the total
C34_SummaryWitness ==
    /\ flow = "tracking"
    /\ pc = "returned"
    /\ ~NoSummaryYet
    /\ result.total = Len(events)
    /\ result.successful + result.failed # result.total

\* the payload of batch (order) b of the dispatch
BatchPayload(b) == IF flow = "tracking" THEN event_batches[b] ELSE << events[b] >>

\* a step that issues a request: it is the next attempt of the batch of the
\* latest request when that one is followed by a retry, and the first attempt
\* of the next batch otherwise
RequestInOrder ==
    requests' # requests =>
        /\ requests' = requests + 1
        /\ pc = "sending"
        /\ last'.payload = BatchPayload(last'.batch)
        /\ IF ~Posted
           THEN last'.batch = 1 /\ last'.attempt = 0
           ELSE IF last.act.retry
           THEN /\ last'.batch = last.batch
                /\ last'.attempt = last.attempt + 1
                /\ Len(sleeps) = last'.attempt
           ELSE /\ last'.batch = last.batch + 1
                /\ last'.attempt = 0
        /\ attempted' = 1..last'.batch

-----------------------------------------------------------------------------
(* C31: the batches are delivered one after the other and in index order:  *)
(* every attempt and every backoff wait of batch i is over before the      *)
(* first attempt of batch i+1 is issued, one request is issued at a time,  *)
(* and the same payload list with the same endpoint outcomes gives the     *)
(* same sequence of requests: each request is determined by the state the  *)
(* earlier outcomes left.                                                  *)
C31_Sequential == [][RequestInOrder]_vars

\* the first attempt of the second batch, after the first batch took an
\* attempt, a wait and another attempt
C31_Witness ==
    /\ Posted
    /\ last.batch = 2
    /\ last.attempt = 0
    /\ requests = 3
    /\ attempted = {1, 2}
    /\ last.payload # BatchPayload(1)

-----------------------------------------------------------------------------
(* C35: in the tracking invocation the steps occur in the fixed order      *)
(* fetch, transformation, probe, dispatch, and a later step starts only    *)
(* when the earlier one yielded work: when the fetch returns no rows, or   *)
(* the transformation yields no valid payload, the invocation returns 200  *)
(* without the connectivity probe and without a delivery request.          *)
C35_StepOrder ==
    flow = "tracking" =>
        /\ net \in {<< >>, << "fetch" >>, << "fetch", "probe" >>}
        /\ stage = "start" => net = << >> /\ events = << >> /\ requests = 0
        /\ stage = "probe" =>
               /\ net = << "fetch" >>
               /\ df # << >>
               /\ events = transform_to_tracking_events(df).tracking_events
               /\ events # << >>
               /\ ~connectivity.probed
               /\ requests = 0
        /\ (stage = "send" \/ requests > 0 \/ pc # "start") =>
               /\ net = << "fetch", "probe" >>
               /\ connectivity.probed
               /\ events # << >>
               /\ event_batches = _chunk_events(events, batch_size)
        /\ connectivity.probed => net = << "fetch", "probe" >> /\ events # << >>
        /\ (Responded /\ events = << >>) =>
               /\ net = << "fetch" >>
               /\ ~connectivity.probed
               /\ requests = 0
               /\ ~Posted
               /\ pc = "start"
               /\ ~ENABLED MainNext
               /\ df # << >> =>
                      response = HttpResponse(
                          [status |-> "success",
                           message |-> "No valid tracking events to process"], 200)
               /\ df = << >> =>
                      \/ response = HttpResponse(
                             [status |-> "success",
                              message |-> "No tracking events to process"], 200)
                      \/ response = Failed("GoogleAPIError")

\* rows were fetched, none of them gave a payload, and the invocation returned
\* 200 without a probe
C35_Witness ==
    /\ flow = "tracking"
    /\ Responded
    /\ Len(df) = 2
    /\ events = << >>
    /\ skipped_count = 2
    /\ response.code = 200
    /\ net = << "fetch" >>
    /\ ~connectivity.probed
    /\ requests = 0

\* the fetch returned no rows and the invocation returned 200 without a probe
C35_EmptyFetchWitness ==
    /\ flow = "tracking"
    /\ Responded
    /\ df = << >>
    /\ response.code = 200
    /\ net = << "fetch" >>
    /\ ~connectivity.probed
    /\ requests = 0

=============================================================================
